---- MODULE Spec2Model ----
(***************************************************************************)
(* svn2svn (svnreplay): replay of the history of a source SVN path into a  *)
(* target SVN path.  The module holds several specifications over one set  *)
(* of variables:                                                           *)
(*   Spec        the run driver real_main: start-up, initial import or     *)
(*               resume, main loop, commit critical section, recovery,     *)
(*               over several consecutive runs into one target repository  *)
(*   SpecRevMap  the rev-map lookup get_rev_map on arbitrary maps          *)
(*   SpecReplay  process_svn_log_entry and do_svn_add on source histories  *)
(*   SpecWalk    the loop of find_svn_ancestors on source histories        *)
(***************************************************************************)
EXTENDS Integers, Sequences, FiniteSets, TLC

(***************************************************************************)
(* Bounds of the model.                                                    *)
(***************************************************************************)
MaxSrcRev == 3
MaxRuns == 3

(***************************************************************************)
(* Program constants.                                                      *)
(***************************************************************************)
\* BreakHandler.__init__(self, emphatic=9)
emphatic == 9
\* Python's None for revision-valued variables.  Revisions of commits are
\* >= 1; the code tests these variables by truth value ("if target_rev:")
\* and by Python 2 ordering, in which None is smaller than every integer.
None == 0

SrcRevs == 1..MaxSrcRev

(***************************************************************************)
(* Strings are sequences of characters, so that quoting, unquoting and     *)
(* comparison do what the code does.                                       *)
(***************************************************************************)
\* urllib.quote(s, ":/") on one character: letters and the safe characters
\* ':' and '/' are kept, a space becomes %20, a percent sign becomes %25.
QuoteChar(c) ==
    IF c = " " THEN <<"%", "2", "0">>
    ELSE IF c = "%" THEN <<"%", "2", "5">>
    ELSE <<c>>

RECURSIVE Quote(_)
Quote(s) == IF s = <<>> THEN <<>> ELSE QuoteChar(Head(s)) \o Quote(Tail(s))

\* urllib.unquote(s): every %XX escape is decoded, the rest is kept.
RECURSIVE Unquote(_)
Unquote(s) ==
    IF s = <<>> THEN <<>>
    ELSE IF Len(s) >= 3 /\ s[1] = "%" /\ s[2] = "2" /\ s[3] = "0"
         THEN <<" ">> \o Unquote(SubSeq(s, 4, Len(s)))
    ELSE IF Len(s) >= 3 /\ s[1] = "%" /\ s[2] = "2" /\ s[3] = "5"
         THEN <<"%">> \o Unquote(SubSeq(s, 4, Len(s)))
    ELSE <<Head(s)>> \o Unquote(Tail(s))

\* The URLs a user may give for the source path (already rstrip("/")'ed).
UrlPlain == <<"s", "/", "t">>
UrlSpace == <<"s", "/", "t", " ", "t">>
SourceUrlArgs == {UrlPlain, UrlSpace}

\* UUID of the source repository, and of some other repository.
SourceUuid == "uuid-source"
OtherUuid == "uuid-other"

\* "svn info --xml": the <url> element holds the URI-encoded URL.
SvnInfoUrl(url) == Quote(url)

(***************************************************************************)
(* Revision properties of a target commit: a function from property names  *)
(* to values.                                                              *)
(***************************************************************************)
NoRevprops == [n \in {} |-> None]

\* gen_tracking_revprops(source_rev)
gen_tracking_revprops(source_uuid, source_url, source_rev) ==
    [n \in {"svn2svn:source_uuid", "svn2svn:source_url", "svn2svn:source_rev"} |->
        CASE n = "svn2svn:source_uuid" -> source_uuid
          [] n = "svn2svn:source_url"  -> Quote(source_url)
          [] n = "svn2svn:source_rev"  -> source_rev]

\* A commit that writes the source entry's revprops over the tracking ones.
CommitRevpropsEntryWins(entry_revprops, target_revprops) ==
    [n \in DOMAIN entry_revprops \cup DOMAIN target_revprops |->
        IF n \in DOMAIN entry_revprops THEN entry_revprops[n] ELSE target_revprops[n]]

\* commit_from_svn_log_entry: revprops = the source entry's revprops, then the
\* target_revprops written over them.
CommitRevprops(entry_revprops, target_revprops) ==
    [n \in DOMAIN entry_revprops \cup DOMAIN target_revprops |->
        IF n \in DOMAIN target_revprops THEN target_revprops[n] ELSE entry_revprops[n]]

(***************************************************************************)
(* The rev map: a function from source revisions to target revisions.      *)
(***************************************************************************)
EmptyMap == [s \in {} |-> None]

\* set_rev_map(source_rev, target_rev)
set_rev_map(m, source_rev, target_rev) ==
    [s \in DOMAIN m \cup {source_rev} |-> IF s = source_rev THEN target_rev ELSE m[s]]

\* get_rev_map(source_rev): for rev in range(int(source_rev), 0, -1)
RECURSIVE get_rev_map_from(_, _)
get_rev_map_from(m, rev) ==
    IF rev <= 0 THEN None
    ELSE IF rev \in DOMAIN m THEN m[rev]
    ELSE get_rev_map_from(m, rev - 1)

\* A lookup whose range starts one below source_rev.
get_rev_map_below(m, source_rev) == get_rev_map_from(m, source_rev - 1)

get_rev_map(m, source_rev) == get_rev_map_from(m, source_rev)

\* The largest element of a non-empty set of revisions.
MaxOf(S) == CHOOSE x \in S : \A y \in S : y <= x

\* Whether a rev map is strictly monotone: s1 < s2 => m[s1] < m[s2].
Monotone(m) == \A s1, s2 \in DOMAIN m : s1 < s2 => m[s1] < m[s2]

\* build_rev_map(target_url, target_end_rev, source_info): the target log is
\* read in ascending order, 1..target_end_rev; an entry is kept when it holds
\* svn2svn:* revprops whose uuid and url equal the configured source's.
TrackingNames == {"svn2svn:source_uuid", "svn2svn:source_url", "svn2svn:source_rev"}

\* A filter that keeps every commit with svn2svn:* revprops, whatever its source.
RevpropsMatchAnySource(revprops, repos_uuid, info_url) ==
    DOMAIN revprops \cap TrackingNames # {}

RevpropsMatch(revprops, repos_uuid, info_url) ==
    /\ DOMAIN revprops \cap TrackingNames # {}
    /\ revprops["svn2svn:source_uuid"] = repos_uuid
    /\ revprops["svn2svn:source_url"] = Quote(info_url)

RECURSIVE build_rev_map_from(_, _, _, _, _)
build_rev_map_from(m, log, rev, repos_uuid, info_url) ==
    IF rev > Len(log) THEN m
    ELSE IF RevpropsMatch(log[rev].revprops, repos_uuid, info_url)
         THEN build_rev_map_from(
                  set_rev_map(m, log[rev].revprops["svn2svn:source_rev"], rev),
                  log, rev + 1, repos_uuid, info_url)
    ELSE build_rev_map_from(m, log, rev + 1, repos_uuid, info_url)

build_rev_map(log, repos_uuid, info_url) ==
    build_rev_map_from(EmptyMap, log, 1, repos_uuid, info_url)

\* The largest key of a rev map.
MaxKey(m) == CHOOSE s \in DOMAIN m : \A s2 \in DOMAIN m : s2 <= s

\* max(rev_map, key=rev_map.get): the key whose value is largest.
MaxKeyByValue(m) == CHOOSE s \in DOMAIN m : \A s2 \in DOMAIN m : m[s2] <= m[s]

(***************************************************************************)
(* The log iterator as the run driver sees it: the entries of the source    *)
(* path with first_rev <= revision <= last_rev, in ascending order.         *)
(***************************************************************************)
RECURSIVE AscendingSeq(_)
AscendingSeq(S) ==
    IF S = {} THEN <<>>
    ELSE LET lo == CHOOSE x \in S : \A y \in S : x <= y
         IN  <<lo>> \o AscendingSeq(S \ {lo})

iter_svn_log_entries(log, first_rev, last_rev) ==
    AscendingSeq({r \in log : first_rev <= r /\ r <= last_rev})

(***************************************************************************)
(* State of the run driver.                                                *)
(***************************************************************************)
VARIABLES
    srcLog,           \* revisions of the source repository that touch source_url
    source_url,       \* the decoded source URL (urllib.unquote of the argument)
    target_log,       \* the target repository: commit i is revision i
    tgt_nonempty,     \* whether "svn list target_url@HEAD" lists anything
    wc_pending,       \* source revisions with uncommitted changes in _wc_target
    runs,             \* number of runs started so far
    run_base,         \* HEAD of the target repository when this run started
    options,          \* optparse options of this run
    pc,               \* position of the run in real_main
    ret,              \* where commit_from_svn_log_entry returns to
    in_try,           \* control is inside the try block of the main loop
    rev_map,          \* module-level rev_map
    source_start_rev,
    source_end_rev,
    source_rev,
    source_rev_last,
    target_rev,
    target_rev_last,
    num_entries_proc,
    it_log_entries,   \* entries the log iterator has still to yield
    commit_rev,       \* log_entry['revision'] inside commit_from_svn_log_entry
    rev_num,          \* rev_num inside commit_from_svn_log_entry / keep_revnum
    handler,          \* SIGINT handler in effect: "default" or "bh"
    bh_count,         \* BreakHandler._count
    bh_enabled,       \* BreakHandler._enabled
    exc,              \* exception raised in this run ("" when none)
    exc_at,           \* position at which it was raised
    exit_code,        \* -1 while the run is going, else the process exit code
    recovery,         \* recovery commands run by the except clauses
    reported,         \* revision printed by "Finished at source revision"
    replayed,         \* source revisions whose processing completed in this run
    lookup,           \* SpecRevMap: the last get_rev_map query and its result
    repos,            \* SpecReplay: the source repository, its log and its trees
    source_base,      \* the path of the source URL inside the source repository
    target_repos,     \* the target repository: the tree of each revision
    wc,               \* the target working copy, _wc_target
    log_queue,        \* log entries the iterator of real_main has still to yield
    log_entry,        \* the log entry process_svn_log_entry is working on
    path_idx,         \* its position in log_entry['changed_paths']
    commit_paths,     \* commit_paths of the current log entry
    export_paths,     \* export_paths of process_svn_log_entry
    source_ancestors, \* find_svn_ancestors of the source base at the end revision
    adds,             \* what do_svn_add decided, call by call
    walk,             \* SpecWalk: the local variables of find_svn_ancestors
    svn_first,        \* SpecWalk: the first log entry of each path and revision
    iter,             \* SpecIter: the local variables of iter_svn_log_entries
    source_props,     \* SpecProps: the properties of the source path at source_rev
    target_props      \* SpecProps: the properties of the path in the working copy

vars == <<srcLog, source_url, target_log, tgt_nonempty, wc_pending, runs, run_base,
          options, pc, ret, in_try, rev_map, source_start_rev, source_end_rev,
          source_rev, source_rev_last, target_rev, target_rev_last,
          num_entries_proc, it_log_entries, commit_rev, rev_num, handler,
          bh_count, bh_enabled, exc, exc_at, exit_code, recovery, reported,
          replayed, lookup, repos, source_base, target_repos, wc, log_queue,
          log_entry, path_idx, commit_paths, export_paths, source_ancestors, adds,
          walk, svn_first, iter, source_props, target_props>>

\* A commit of the target repository.  "by" tells which code made it
\* ("replay": commit_from_svn_log_entry, "pad": keep_revnum, "other": not
\* this program on this source); "src" is the source revision it replays.
Commit(revprops, by, src) == [revprops |-> revprops, by |-> by, src |-> src]

\* Commits found in a target repository before the first run: made by someone
\* else, without revprops, or by a replay of another source repository.  They
\* may have left the target path empty.
OtherPlain == Commit(NoRevprops, "other", None)
OtherTracked(r) == Commit(gen_tracking_revprops(OtherUuid, UrlPlain, r), "other", None)

\* optparse options (main): dry-run forces limit = 1; limit 0 is "no limit".
\* The runs of the model use these command lines.
Opt(cont, force, dry, keeprev, keepdate, keepauthor, limit, start) ==
    [cont_from_break |-> cont, force_nocont |-> force, dry_run |-> dry,
     keep_revnum |-> keeprev, keep_date |-> keepdate, keep_author |-> keepauthor,
     entries_proc_limit |-> limit, rev_start |-> start]

OptionSets ==
    { Opt(FALSE, FALSE, FALSE, FALSE, FALSE, FALSE, 0, 1),
      Opt(FALSE, FALSE, FALSE, FALSE, FALSE, FALSE, 1, 2),
      Opt(FALSE, TRUE,  FALSE, FALSE, TRUE,  FALSE, 1, 1),
      Opt(FALSE, FALSE, FALSE, TRUE,  TRUE,  TRUE,  0, 1),
      Opt(FALSE, FALSE, TRUE,  FALSE, FALSE, FALSE, 1, 1),
      Opt(TRUE,  FALSE, FALSE, FALSE, FALSE, TRUE,  0, 1),
      Opt(TRUE,  FALSE, FALSE, TRUE,  FALSE, FALSE, 1, 1),
      Opt(TRUE,  FALSE, TRUE,  TRUE,  FALSE, FALSE, 1, 1) }

NoOptions == [cont_from_break |-> FALSE, force_nocont |-> FALSE, dry_run |-> FALSE,
              keep_revnum |-> FALSE, keep_date |-> FALSE, keep_author |-> FALSE,
              entries_proc_limit |-> 0, rev_start |-> 1]

\* The source histories of the model: every source revision touches the
\* source path, or all but one do, or only the first does.
SourceLogs == {S \in SUBSET SrcRevs : Cardinality(S) >= MaxSrcRev - 1} \cup {{1}}

\* find_svn_ancestors before its first call.
NoIter ==
    [svn_url |-> <<>>, first_rev |-> None, last_rev |-> None, start_rev |-> None,
     cur_url |-> <<>>, cur_rev |-> None, cur_anc_idx |-> None, cur_anc_end_rev |-> None,
     chunk_length |-> None, stop_rev |-> None, duration |-> None,
     entries |-> <<>>, yielded |-> <<>>]

NoWalk ==
    [start_path |-> <<>>, start_rev |-> None, stop_base_path |-> <<>>,
     cur_path |-> <<>>, cur_rev |-> None, first_iter_done |-> FALSE,
     done |-> FALSE, no_ancestry |-> FALSE, ancestors |-> <<>>]

\* The property maps while the model does not follow sync_svn_props.
NoProps == source_props = <<>> /\ target_props = <<>>

\* The state of the path-level replay while the model does not follow it.
NoReplay ==
    /\ walk = NoWalk
    /\ svn_first = <<>>
    /\ iter = NoIter
    /\ repos = [log |-> <<>>, tree |-> <<>>]
    /\ source_base = <<>>
    /\ target_repos = <<>>
    /\ wc = <<>>
    /\ log_queue = <<>>
    /\ log_entry = [revision |-> None, url |-> <<>>, failed |-> FALSE]
    /\ path_idx = 0
    /\ commit_paths = <<>>
    /\ export_paths = <<>>
    /\ source_ancestors = <<>>
    /\ adds = <<>>

\* The local state of a process that has not started a run.
IdleRun ==
    /\ NoReplay
    /\ wc_pending = {}
    /\ runs = 0
    /\ options = NoOptions
    /\ pc = "idle"
    /\ ret = "idle"
    /\ in_try = FALSE
    /\ source_start_rev = None
    /\ source_end_rev = None
    /\ source_rev = None
    /\ source_rev_last = None
    /\ target_rev = None
    /\ target_rev_last = None
    /\ num_entries_proc = 0
    /\ it_log_entries = <<>>
    /\ commit_rev = None
    /\ rev_num = None
    /\ handler = "default"
    /\ bh_count = 0
    /\ bh_enabled = FALSE
    /\ exc = ""
    /\ exc_at = ""
    /\ exit_code = -1
    /\ recovery = <<>>
    /\ reported = None
    /\ replayed = {}

Init ==
    /\ srcLog \in SourceLogs
    /\ source_url \in {Unquote(a) : a \in SourceUrlArgs}
    /\ target_log \in {<<>>, <<OtherPlain, OtherTracked(MaxSrcRev)>>}
    /\ tgt_nonempty \in IF target_log = <<>> THEN {FALSE} ELSE BOOLEAN
    /\ run_base = Len(target_log)
    /\ rev_map = EmptyMap
    /\ lookup = <<>>
    /\ NoProps
    /\ IdleRun


(***************************************************************************)
(* Exceptions.  Inside the try block of the main loop an exception reaches  *)
(* one of the except clauses; before the try block nothing catches it and   *)
(* the process ends with a traceback and a non-zero exit code.              *)
(***************************************************************************)
Raise(type) ==
    /\ exc' = type
    /\ exc_at' = pc
    /\ pc' = IF ~in_try THEN "uncaught"
             ELSE IF type = "KeyboardInterrupt" THEN "except_kbd" ELSE "except_other"

\* Revprops of the source log entry handed to commit_from_svn_log_entry: the
\* initial import reads the log without revprops; a main-loop entry carries
\* the source revision's revprops, which hold tracking revprops of their own
\* when the source is itself the target of a replay.
\* Source revision 2 of the model is such a revision.
UpstreamRevprops == gen_tracking_revprops(OtherUuid, UrlPlain, MaxSrcRev + 1)
SrcRevprops(rev) == IF rev = 2 THEN UpstreamRevprops ELSE NoRevprops
EntryRevprops(rev) == IF ret = "import_after" THEN NoRevprops ELSE SrcRevprops(rev)

(***************************************************************************)
(* real_main: start of a run.                                              *)
(***************************************************************************)
\* Lines 789-853: a new process; the working copy is checked out afresh, or
\* cleaned and reverted when the run continues an earlier one.
StartRun(o) ==
    /\ pc \in {"idle", "exit"}
    /\ runs < MaxRuns
    /\ runs' = runs + 1
    /\ run_base' = Len(target_log)
    /\ options' = o
    /\ wc_pending' = {}
    /\ rev_map' = EmptyMap
    /\ source_start_rev' = o.rev_start
    /\ source_end_rev' = MaxSrcRev
    /\ source_rev' = None
    /\ source_rev_last' = None
    /\ target_rev' = None
    /\ target_rev_last' = Len(target_log)
    /\ num_entries_proc' = 0
    /\ it_log_entries' = <<>>
    /\ commit_rev' = None
    /\ rev_num' = None
    /\ handler' = "default"
    /\ bh_count' = 0
    /\ bh_enabled' = FALSE
    /\ exc' = ""
    /\ exc_at' = ""
    /\ exit_code' = -1
    /\ recovery' = <<>>
    /\ reported' = None
    /\ replayed' = {}
    /\ in_try' = FALSE
    /\ ret' = "idle"
    /\ pc' = IF o.cont_from_break THEN "build_rev_map" ELSE "force_check"
    /\ UNCHANGED <<srcLog, source_url, target_log, tgt_nonempty, lookup, repos,
                   source_base, target_repos, wc, log_queue, log_entry,
                   path_idx, commit_paths, export_paths, source_ancestors,
                   adds, walk, svn_first, iter, source_props, target_props>>

\* A run that never looks at the target path.
ForceCheckSkipped ==
    /\ pc = "force_check"
    /\ pc' = "import_find"
    /\ UNCHANGED <<srcLog, source_url, target_log, tgt_nonempty, wc_pending,
                   runs, run_base, options, ret, in_try, rev_map,
                   source_start_rev, source_end_rev, source_rev,
                   source_rev_last, target_rev, target_rev_last,
                   num_entries_proc, it_log_entries, commit_rev, rev_num,
                   handler, bh_count, bh_enabled, exc, exc_at, exit_code,
                   recovery, reported, replayed, lookup, repos, source_base,
                   target_repos, wc, log_queue, log_entry, path_idx,
                   commit_paths, export_paths, source_ancestors, adds, walk,
                   svn_first, iter, source_props, target_props>>

\* Lines 854-861: refuse a non-empty target unless --force.
ForceCheck ==
    /\ pc = "force_check"
    /\ pc' = IF ~options.force_nocont /\ tgt_nonempty THEN "exit" ELSE "import_find"
    /\ exit_code' = IF ~options.force_nocont /\ tgt_nonempty THEN 1 ELSE exit_code
    /\ UNCHANGED <<srcLog, source_url, target_log, tgt_nonempty, wc_pending,
                   runs, run_base, options, ret, in_try, rev_map,
                   source_start_rev, source_end_rev, source_rev,
                   source_rev_last, target_rev, target_rev_last,
                   num_entries_proc, it_log_entries, commit_rev, rev_num,
                   handler, bh_count, bh_enabled, exc, exc_at, recovery,
                   reported, replayed, lookup, repos, source_base,
                   target_repos, wc, log_queue, log_entry, path_idx,
                   commit_paths, export_paths, source_ancestors, adds, walk,
                   svn_first, iter, source_props, target_props>>

\* Lines 862-880: the first log entry at or after source_start_rev.  The
\* keep-revnum test reads source_rev, which is still None here.
ImportFind ==
    /\ pc = "import_find"
    /\ LET entries == iter_svn_log_entries(srcLog, source_start_rev, source_end_rev)
       IN  IF entries = <<>>
           THEN /\ Raise("InternalError")
                /\ UNCHANGED <<source_start_rev, ret>>
           ELSE /\ source_start_rev' = Head(entries)
                /\ ret' = "import_apply"
                /\ pc' = IF options.keep_revnum /\ source_rev > target_rev_last
                         THEN "keep_revnum" ELSE "import_apply"
                /\ UNCHANGED <<exc, exc_at>>
    /\ UNCHANGED <<srcLog, source_url, target_log, tgt_nonempty, wc_pending,
                   runs, run_base, options, in_try, rev_map, source_end_rev,
                   source_rev, source_rev_last, target_rev, target_rev_last,
                   num_entries_proc, it_log_entries, commit_rev, rev_num,
                   handler, bh_count, bh_enabled, exit_code, recovery,
                   reported, replayed, lookup, repos, source_base,
                   target_repos, wc, log_queue, log_entry, path_idx,
                   commit_paths, export_paths, source_ancestors, adds, walk,
                   svn_first, iter, source_props, target_props>>

\* Lines 882-908: export and add the content of the start revision.
ImportApply(content) ==
    /\ pc = "import_apply"
    /\ wc_pending' = IF content THEN {source_start_rev} ELSE {}
    /\ num_entries_proc' = num_entries_proc + 1
    /\ replayed' = replayed \cup {source_start_rev}
    /\ commit_rev' = source_start_rev
    /\ ret' = "import_after"
    /\ pc' = "commit_begin"
    /\ UNCHANGED <<srcLog, source_url, target_log, tgt_nonempty, runs,
                   run_base, options, in_try, rev_map, source_start_rev,
                   source_end_rev, source_rev, source_rev_last, target_rev,
                   target_rev_last, it_log_entries, rev_num, handler, bh_count,
                   bh_enabled, exc, exc_at, exit_code, recovery, reported,
                   lookup, repos, source_base, target_repos, wc, log_queue,
                   log_entry, path_idx, commit_paths, export_paths,
                   source_ancestors, adds, walk, svn_first, iter, source_props,
                   target_props>>

\* Lines 892-893: a top-level entry of the source is versioned in the target.
ImportCollide(partial) ==
    /\ pc = "import_apply"
    /\ tgt_nonempty
    /\ wc_pending' = IF partial THEN {source_start_rev} ELSE {}
    /\ Raise("InternalError")
    /\ UNCHANGED <<srcLog, source_url, target_log, tgt_nonempty, runs,
                   run_base, options, ret, in_try, rev_map, source_start_rev,
                   source_end_rev, source_rev, source_rev_last, target_rev,
                   target_rev_last, num_entries_proc, it_log_entries,
                   commit_rev, rev_num, handler, bh_count, bh_enabled,
                   exit_code, recovery, reported, replayed, lookup, repos,
                   source_base, target_repos, wc, log_queue, log_entry,
                   path_idx, commit_paths, export_paths, source_ancestors,
                   adds, walk, svn_first, iter, source_props, target_props>>

\* Lines 911-917.
ImportAfter ==
    /\ pc = "import_after"
    /\ rev_map' = IF target_rev # None
                  THEN set_rev_map(rev_map, source_start_rev, target_rev) ELSE rev_map
    /\ target_rev_last' = IF target_rev # None THEN target_rev ELSE target_rev_last
    /\ pc' = "loop_init"
    /\ UNCHANGED <<srcLog, source_url, target_log, tgt_nonempty, wc_pending,
                   runs, run_base, options, ret, in_try, source_start_rev,
                   source_end_rev, source_rev, source_rev_last, target_rev,
                   num_entries_proc, it_log_entries, commit_rev, rev_num,
                   handler, bh_count, bh_enabled, exc, exc_at, exit_code,
                   recovery, reported, replayed, lookup, repos, source_base,
                   target_repos, wc, log_queue, log_entry, path_idx,
                   commit_paths, export_paths, source_ancestors, adds, walk,
                   svn_first, iter, source_props, target_props>>

\* Lines 919-927: resume.
BuildRevMap ==
    /\ pc = "build_rev_map"
    /\ LET m == build_rev_map(SubSeq(target_log, 1, target_rev_last),
                              SourceUuid, SvnInfoUrl(source_url))
       IN  /\ rev_map' = m
           /\ source_start_rev' = IF DOMAIN m = {} THEN source_start_rev
                                  ELSE MaxKeyByValue(m)
           /\ pc' = IF DOMAIN m = {} THEN "exit" ELSE "loop_init"
           /\ exit_code' = IF DOMAIN m = {} THEN 1 ELSE exit_code
    /\ UNCHANGED <<srcLog, source_url, target_log, tgt_nonempty, wc_pending,
                   runs, run_base, options, ret, in_try, source_end_rev,
                   source_rev, source_rev_last, target_rev, target_rev_last,
                   num_entries_proc, it_log_entries, commit_rev, rev_num,
                   handler, bh_count, bh_enabled, exc, exc_at, recovery,
                   reported, replayed, lookup, repos, source_base,
                   target_repos, wc, log_queue, log_entry, path_idx,
                   commit_paths, export_paths, source_ancestors, adds, walk,
                   svn_first, iter, source_props, target_props>>

(***************************************************************************)
(* real_main: the main loop.                                               *)
(***************************************************************************)
\* The entries of a sequence in reverse order.
RECURSIVE Reverse(_)
Reverse(s) == IF s = <<>> THEN <<>> ELSE Append(Reverse(Tail(s)), Head(s))

\* A loop that reads the log newest first.
LoopInitDescending ==
    /\ pc = "loop_init"
    /\ it_log_entries' = IF source_start_rev < source_end_rev
                         THEN Reverse(iter_svn_log_entries(srcLog, source_start_rev + 1,
                                                           source_end_rev))
                         ELSE <<>>
    /\ source_rev_last' = source_start_rev
    /\ in_try' = TRUE
    /\ pc' = "loop_next"
    /\ UNCHANGED <<srcLog, source_url, target_log, tgt_nonempty, wc_pending,
                   runs, run_base, options, ret, rev_map, source_start_rev,
                   source_end_rev, source_rev, target_rev, target_rev_last,
                   num_entries_proc, commit_rev, rev_num, handler, bh_count,
                   bh_enabled, exc, exc_at, exit_code, recovery, reported,
                   replayed, lookup, repos, source_base, target_repos, wc,
                   log_queue, log_entry, path_idx, commit_paths, export_paths,
                   source_ancestors, adds, walk, svn_first, iter, source_props,
                   target_props>>

\* A loop that starts at the start revision itself.
LoopInitInclusive ==
    /\ pc = "loop_init"
    /\ it_log_entries' = IF source_start_rev < source_end_rev
                         THEN iter_svn_log_entries(srcLog, source_start_rev, source_end_rev)
                         ELSE <<>>
    /\ source_rev_last' = source_start_rev
    /\ in_try' = TRUE
    /\ pc' = "loop_next"
    /\ UNCHANGED <<srcLog, source_url, target_log, tgt_nonempty, wc_pending,
                   runs, run_base, options, ret, rev_map, source_start_rev,
                   source_end_rev, source_rev, target_rev, target_rev_last,
                   num_entries_proc, commit_rev, rev_num, handler, bh_count,
                   bh_enabled, exc, exc_at, exit_code, recovery, reported,
                   replayed, lookup, repos, source_base, target_repos, wc,
                   log_queue, log_entry, path_idx, commit_paths, export_paths,
                   source_ancestors, adds, walk, svn_first, iter, source_props,
                   target_props>>

\* Lines 929-938.
LoopInit ==
    /\ pc = "loop_init"
    /\ it_log_entries' = IF source_start_rev < source_end_rev
                         THEN iter_svn_log_entries(srcLog, source_start_rev + 1, source_end_rev)
                         ELSE <<>>
    /\ source_rev_last' = source_start_rev
    /\ in_try' = TRUE
    /\ pc' = "loop_next"
    /\ UNCHANGED <<srcLog, source_url, target_log, tgt_nonempty, wc_pending,
                   runs, run_base, options, ret, rev_map, source_start_rev,
                   source_end_rev, source_rev, target_rev, target_rev_last,
                   num_entries_proc, commit_rev, rev_num, handler, bh_count,
                   bh_enabled, exc, exc_at, exit_code, recovery, reported,
                   replayed, lookup, repos, source_base, target_repos, wc,
                   log_queue, log_entry, path_idx, commit_paths, export_paths,
                   source_ancestors, adds, walk, svn_first, iter, source_props,
                   target_props>>

\* Lines 939-945: next entry of the iterator, and the --limit test.
LoopNext ==
    /\ pc = "loop_next"
    /\ IF it_log_entries = <<>>
       THEN /\ pc' = "loop_end"
            /\ UNCHANGED <<it_log_entries, source_rev, ret>>
       ELSE /\ it_log_entries' = Tail(it_log_entries)
            /\ IF options.entries_proc_limit # 0
                  /\ num_entries_proc >= options.entries_proc_limit
               THEN /\ pc' = "loop_end"
                    /\ UNCHANGED <<source_rev, ret>>
               ELSE /\ source_rev' = Head(it_log_entries)
                    /\ ret' = "process"
                    /\ pc' = IF options.keep_revnum THEN "loop_keep_revnum" ELSE "process"
    /\ UNCHANGED <<srcLog, source_url, target_log, tgt_nonempty, wc_pending,
                   runs, run_base, options, in_try, rev_map, source_start_rev,
                   source_end_rev, source_rev_last, target_rev,
                   target_rev_last, num_entries_proc, commit_rev, rev_num,
                   handler, bh_count, bh_enabled, exc, exc_at, exit_code,
                   recovery, reported, replayed, lookup, repos, source_base,
                   target_repos, wc, log_queue, log_entry, path_idx,
                   commit_paths, export_paths, source_ancestors, adds, walk,
                   svn_first, iter, source_props, target_props>>

\* Lines 947-952: "return 1" leaves through the finally clause.
LoopKeepRevnum ==
    /\ pc = "loop_keep_revnum"
    /\ pc' = IF source_rev < target_rev_last THEN "finally" ELSE "keep_revnum"
    /\ exit_code' = IF source_rev < target_rev_last THEN 1 ELSE exit_code
    /\ UNCHANGED <<srcLog, source_url, target_log, tgt_nonempty, wc_pending,
                   runs, run_base, options, ret, in_try, rev_map,
                   source_start_rev, source_end_rev, source_rev,
                   source_rev_last, target_rev, target_rev_last,
                   num_entries_proc, it_log_entries, commit_rev, rev_num,
                   handler, bh_count, bh_enabled, exc, exc_at, recovery,
                   reported, replayed, lookup, repos, source_base,
                   target_repos, wc, log_queue, log_entry, path_idx,
                   commit_paths, export_paths, source_ancestors, adds, walk,
                   svn_first, iter, source_props, target_props>>

\* keep_revnum, lines 754-763.
KeepRevnum ==
    /\ pc = "keep_revnum"
    /\ IF source_rev <= target_rev_last
       THEN /\ Raise("InternalError")
            /\ UNCHANGED rev_num
       ELSE /\ rev_num' = IF target_rev_last < source_rev - 1
                          THEN target_rev_last + 1 ELSE rev_num
            /\ pc' = IF target_rev_last < source_rev - 1 THEN "pad_propset" ELSE ret
            /\ UNCHANGED <<exc, exc_at>>
    /\ UNCHANGED <<srcLog, source_url, target_log, tgt_nonempty, wc_pending,
                   runs, run_base, options, ret, in_try, rev_map,
                   source_start_rev, source_end_rev, source_rev,
                   source_rev_last, target_rev, target_rev_last,
                   num_entries_proc, it_log_entries, commit_rev, handler,
                   bh_count, bh_enabled, exit_code, recovery, reported,
                   replayed, lookup, repos, source_base, target_repos, wc,
                   log_queue, log_entry, path_idx, commit_paths, export_paths,
                   source_ancestors, adds, walk, svn_first, iter, source_props,
                   target_props>>

\* keep_revnum, lines 765-768: propset on the scratch working copy, bh.enable().
PadPropset ==
    /\ pc = "pad_propset"
    /\ handler' = "bh"
    /\ bh_count' = IF bh_enabled THEN bh_count ELSE 0
    /\ bh_enabled' = TRUE
    /\ pc' = "pad_commit"
    /\ UNCHANGED <<srcLog, source_url, target_log, tgt_nonempty, wc_pending,
                   runs, run_base, options, ret, in_try, rev_map,
                   source_start_rev, source_end_rev, source_rev,
                   source_rev_last, target_rev, target_rev_last,
                   num_entries_proc, it_log_entries, commit_rev, rev_num, exc,
                   exc_at, exit_code, recovery, reported, replayed, lookup,
                   repos, source_base, target_repos, wc, log_queue, log_entry,
                   path_idx, commit_paths, export_paths, source_ancestors,
                   adds, walk, svn_first, iter, source_props, target_props>>

\* keep_revnum, lines 769-772: the placeholder commit and its assertion.
PadCommit ==
    /\ pc = "pad_commit"
    /\ target_log' = Append(target_log, Commit(NoRevprops, "pad", None))
    /\ IF rev_num = Len(target_log) + 1
       THEN /\ pc' = "pad_disable"
            /\ UNCHANGED <<exc, exc_at>>
       ELSE Raise("AssertionError")
    /\ UNCHANGED <<srcLog, source_url, tgt_nonempty, wc_pending, runs,
                   run_base, options, ret, in_try, rev_map, source_start_rev,
                   source_end_rev, source_rev, source_rev_last, target_rev,
                   target_rev_last, num_entries_proc, it_log_entries,
                   commit_rev, rev_num, handler, bh_count, bh_enabled,
                   exit_code, recovery, reported, replayed, lookup, repos,
                   source_base, target_repos, wc, log_queue, log_entry,
                   path_idx, commit_paths, export_paths, source_ancestors,
                   adds, walk, svn_first, iter, source_props, target_props>>

PadCommitFail ==
    /\ pc = "pad_commit"
    /\ Raise("ExternalCommandFailed")
    /\ UNCHANGED <<srcLog, source_url, target_log, tgt_nonempty, wc_pending,
                   runs, run_base, options, ret, in_try, rev_map,
                   source_start_rev, source_end_rev, source_rev,
                   source_rev_last, target_rev, target_rev_last,
                   num_entries_proc, it_log_entries, commit_rev, rev_num,
                   handler, bh_count, bh_enabled, exit_code, recovery,
                   reported, replayed, lookup, repos, source_base,
                   target_repos, wc, log_queue, log_entry, path_idx,
                   commit_paths, export_paths, source_ancestors, adds, walk,
                   svn_first, iter, source_props, target_props>>

\* keep_revnum, lines 773-779: bh.disable(), the trapped test, next round.
PadDisable ==
    /\ pc = "pad_disable"
    /\ handler' = IF bh_enabled THEN "default" ELSE handler
    /\ bh_enabled' = FALSE
    /\ IF bh_count > 0
       THEN /\ Raise("KeyboardInterrupt")
            /\ UNCHANGED <<target_rev_last, rev_num>>
       ELSE /\ target_rev_last' = rev_num
            /\ rev_num' = IF rev_num + 1 < source_rev THEN rev_num + 1 ELSE rev_num
            /\ pc' = IF rev_num + 1 < source_rev THEN "pad_propset" ELSE ret
            /\ UNCHANGED <<exc, exc_at>>
    /\ UNCHANGED <<srcLog, source_url, target_log, tgt_nonempty, wc_pending,
                   runs, run_base, options, ret, in_try, rev_map,
                   source_start_rev, source_end_rev, source_rev,
                   source_rev_last, target_rev, num_entries_proc,
                   it_log_entries, commit_rev, bh_count, exit_code, recovery,
                   reported, replayed, lookup, repos, source_base,
                   target_repos, wc, log_queue, log_entry, path_idx,
                   commit_paths, export_paths, source_ancestors, adds, walk,
                   svn_first, iter, source_props, target_props>>

\* Lines 955-957: process_svn_log_entry ran to its end; the working copy
\* holds the changes of source_rev, if replaying it changes anything.
Process(changed) ==
    /\ pc = "process"
    /\ wc_pending' = IF changed THEN wc_pending \cup {source_rev} ELSE wc_pending
    /\ num_entries_proc' = num_entries_proc + 1
    /\ replayed' = replayed \cup {source_rev}
    /\ commit_rev' = source_rev
    /\ ret' = "loop_after"
    /\ pc' = "commit_begin"
    /\ UNCHANGED <<srcLog, source_url, target_log, tgt_nonempty, runs,
                   run_base, options, in_try, rev_map, source_start_rev,
                   source_end_rev, source_rev, source_rev_last, target_rev,
                   target_rev_last, it_log_entries, rev_num, handler, bh_count,
                   bh_enabled, exc, exc_at, exit_code, recovery, reported,
                   lookup, repos, source_base, target_repos, wc, log_queue,
                   log_entry, path_idx, commit_paths, export_paths,
                   source_ancestors, adds, walk, svn_first, iter, source_props,
                   target_props>>

\* process_svn_log_entry raises: an action outside MARD, or a failed svn
\* command; the changed paths before it may have been applied.
ProcessRaise(type, partial) ==
    /\ pc = "process"
    /\ wc_pending' = IF partial THEN wc_pending \cup {source_rev} ELSE wc_pending
    /\ Raise(type)
    /\ UNCHANGED <<srcLog, source_url, target_log, tgt_nonempty, runs,
                   run_base, options, ret, in_try, rev_map, source_start_rev,
                   source_end_rev, source_rev, source_rev_last, target_rev,
                   target_rev_last, num_entries_proc, it_log_entries,
                   commit_rev, rev_num, handler, bh_count, bh_enabled,
                   exit_code, recovery, reported, replayed, lookup, repos,
                   source_base, target_repos, wc, log_queue, log_entry,
                   path_idx, commit_paths, export_paths, source_ancestors,
                   adds, walk, svn_first, iter, source_props, target_props>>

\* A loop that records a rev-map entry whether or not a commit was made.
LoopAfterAlways ==
    /\ pc = "loop_after"
    /\ source_rev_last' = source_rev
    /\ rev_map' = set_rev_map(rev_map, source_rev, target_rev)
    /\ target_rev_last' = IF target_rev # None THEN target_rev ELSE target_rev_last
    /\ pc' = "loop_next"
    /\ UNCHANGED <<srcLog, source_url, target_log, tgt_nonempty, wc_pending,
                   runs, run_base, options, ret, in_try, source_start_rev,
                   source_end_rev, source_rev, target_rev, num_entries_proc,
                   it_log_entries, commit_rev, rev_num, handler, bh_count,
                   bh_enabled, exc, exc_at, exit_code, recovery, reported,
                   replayed, lookup, repos, source_base, target_repos, wc,
                   log_queue, log_entry, path_idx, commit_paths, export_paths,
                   source_ancestors, adds, walk, svn_first, iter, source_props,
                   target_props>>

\* Lines 961-972.
LoopAfter ==
    /\ pc = "loop_after"
    /\ source_rev_last' = source_rev
    /\ rev_map' = IF target_rev # None
                  THEN set_rev_map(rev_map, source_rev, target_rev) ELSE rev_map
    /\ target_rev_last' = IF target_rev # None THEN target_rev ELSE target_rev_last
    /\ pc' = "loop_next"
    /\ UNCHANGED <<srcLog, source_url, target_log, tgt_nonempty, wc_pending,
                   runs, run_base, options, ret, in_try, source_start_rev,
                   source_end_rev, source_rev, target_rev, num_entries_proc,
                   it_log_entries, commit_rev, rev_num, handler, bh_count,
                   bh_enabled, exc, exc_at, exit_code, recovery, reported,
                   replayed, lookup, repos, source_base, target_repos, wc,
                   log_queue, log_entry, path_idx, commit_paths, export_paths,
                   source_ancestors, adds, walk, svn_first, iter, source_props,
                   target_props>>

\* Lines 973-977: the loop ended; exit_code is 0.
LoopEnd ==
    /\ pc = "loop_end"
    /\ exit_code' = 0
    /\ pc' = "finally"
    /\ UNCHANGED <<srcLog, source_url, target_log, tgt_nonempty, wc_pending,
                   runs, run_base, options, ret, in_try, rev_map,
                   source_start_rev, source_end_rev, source_rev,
                   source_rev_last, target_rev, target_rev_last,
                   num_entries_proc, it_log_entries, commit_rev, rev_num,
                   handler, bh_count, bh_enabled, exc, exc_at, recovery,
                   reported, replayed, lookup, repos, source_base,
                   target_repos, wc, log_queue, log_entry, path_idx,
                   commit_paths, export_paths, source_ancestors, adds, walk,
                   svn_first, iter, source_props, target_props>>

\* full_svn_revert, lines 346-360: revert, status, then removal of every
\* unversioned path the status lists.
full_svn_revert == <<"revert", "status", "rm_unversioned">>

\* An except clause that stops without reverting.
ExceptKeyboardInterruptNoRevert ==
    /\ pc = "except_kbd"
    /\ exit_code' = 1
    /\ recovery' = <<"cleanup">>
    /\ pc' = "finally"
    /\ UNCHANGED <<srcLog, source_url, target_log, tgt_nonempty, wc_pending,
                   runs, run_base, options, ret, in_try, rev_map,
                   source_start_rev, source_end_rev, source_rev,
                   source_rev_last, target_rev, target_rev_last,
                   num_entries_proc, it_log_entries, commit_rev, rev_num,
                   handler, bh_count, bh_enabled, exc, exc_at, reported,
                   replayed, lookup, repos, source_base, target_repos, wc,
                   log_queue, log_entry, path_idx, commit_paths, export_paths,
                   source_ancestors, adds, walk, svn_first, iter, source_props,
                   target_props>>

\* Lines 979-984.
ExceptKeyboardInterrupt ==
    /\ pc = "except_kbd"
    /\ exit_code' = 1
    /\ recovery' = <<"cleanup">> \o full_svn_revert
    /\ wc_pending' = {}
    /\ pc' = "finally"
    /\ UNCHANGED <<srcLog, source_url, target_log, tgt_nonempty, runs,
                   run_base, options, ret, in_try, rev_map, source_start_rev,
                   source_end_rev, source_rev, source_rev_last, target_rev,
                   target_rev_last, num_entries_proc, it_log_entries,
                   commit_rev, rev_num, handler, bh_count, bh_enabled, exc,
                   exc_at, reported, replayed, lookup, repos, source_base,
                   target_repos, wc, log_queue, log_entry, path_idx,
                   commit_paths, export_paths, source_ancestors, adds, walk,
                   svn_first, iter, source_props, target_props>>

\* Lines 985-992.
ExceptOther ==
    /\ pc = "except_other"
    /\ exit_code' = 1
    /\ recovery' = <<"cleanup", "status">> \o full_svn_revert
    /\ wc_pending' = {}
    /\ pc' = "finally"
    /\ UNCHANGED <<srcLog, source_url, target_log, tgt_nonempty, runs,
                   run_base, options, ret, in_try, rev_map, source_start_rev,
                   source_end_rev, source_rev, source_rev_last, target_rev,
                   target_rev_last, num_entries_proc, it_log_entries,
                   commit_rev, rev_num, handler, bh_count, bh_enabled, exc,
                   exc_at, reported, replayed, lookup, repos, source_base,
                   target_repos, wc, log_queue, log_entry, path_idx,
                   commit_paths, export_paths, source_ancestors, adds, walk,
                   svn_first, iter, source_props, target_props>>

\* Lines 993-996: the summary line, "return exit_code", and the end of the
\* process, with which its BreakHandler object is gone.
Finally ==
    /\ pc = "finally"
    /\ reported' = source_rev_last
    /\ bh_count' = 0
    /\ pc' = "exit"
    /\ UNCHANGED <<srcLog, source_url, target_log, tgt_nonempty, wc_pending,
                   runs, run_base, options, ret, in_try, rev_map,
                   source_start_rev, source_end_rev, source_rev,
                   source_rev_last, target_rev, target_rev_last,
                   num_entries_proc, it_log_entries, commit_rev, rev_num,
                   handler, bh_enabled, exc, exc_at, exit_code, recovery,
                   replayed, lookup, repos, source_base, target_repos, wc,
                   log_queue, log_entry, path_idx, commit_paths, export_paths,
                   source_ancestors, adds, walk, svn_first, iter, source_props,
                   target_props>>

\* An exception nothing catches: the interpreter prints the traceback and the
\* process ends with status 1.
Uncaught ==
    /\ pc = "uncaught"
    /\ exit_code' = 1
    /\ bh_count' = 0
    /\ pc' = "exit"
    /\ UNCHANGED <<srcLog, source_url, target_log, tgt_nonempty, wc_pending,
                   runs, run_base, options, ret, in_try, rev_map,
                   source_start_rev, source_end_rev, source_rev,
                   source_rev_last, target_rev, target_rev_last,
                   num_entries_proc, it_log_entries, commit_rev, rev_num,
                   handler, bh_enabled, exc, exc_at, recovery, reported,
                   replayed, lookup, repos, source_base, target_repos, wc,
                   log_queue, log_entry, path_idx, commit_paths, export_paths,
                   source_ancestors, adds, walk, svn_first, iter, source_props,
                   target_props>>

(***************************************************************************)
(* commit_from_svn_log_entry.                                              *)
(***************************************************************************)
\* Lines 48-100: dry-run returns None; otherwise bh = BreakHandler(); bh.enable().
CommitBegin ==
    /\ pc = "commit_begin"
    /\ rev_num' = None
    /\ IF options.dry_run
       THEN /\ target_rev' = None
            /\ pc' = ret
            /\ UNCHANGED <<handler, bh_count, bh_enabled>>
       ELSE /\ handler' = "bh"
            /\ bh_count' = 0
            /\ bh_enabled' = TRUE
            /\ pc' = "commit_svn"
            /\ UNCHANGED target_rev
    /\ UNCHANGED <<srcLog, source_url, target_log, tgt_nonempty, wc_pending,
                   runs, run_base, options, ret, in_try, rev_map,
                   source_start_rev, source_end_rev, source_rev,
                   source_rev_last, target_rev_last, num_entries_proc,
                   it_log_entries, commit_rev, exc, exc_at, exit_code,
                   recovery, reported, replayed, lookup, repos, source_base,
                   target_repos, wc, log_queue, log_entry, path_idx,
                   commit_paths, export_paths, source_ancestors, adds, walk,
                   svn_first, iter, source_props, target_props>>

\* Where the critical section goes after "svn commit" returned rev.
AfterCommit(rev) ==
    IF rev # None /\ options.keep_date THEN "commit_date"
    ELSE IF rev # None /\ options.keep_author THEN "commit_author"
    ELSE "commit_disable"

\* A commit that leaves the committed changes pending in the working copy.
CommitSvnKeepsPending ==
    /\ pc = "commit_svn"
    /\ IF wc_pending # {}
       THEN /\ target_log' = Append(target_log,
                  Commit(CommitRevprops(EntryRevprops(commit_rev),
                             gen_tracking_revprops(SourceUuid, source_url, commit_rev)),
                         "replay", commit_rev))
            /\ rev_num' = Len(target_log) + 1
            /\ tgt_nonempty' = TRUE
       ELSE /\ rev_num' = None
            /\ UNCHANGED <<target_log, tgt_nonempty>>
    /\ wc_pending' = wc_pending
    /\ pc' = AfterCommit(rev_num')
    /\ UNCHANGED <<srcLog, source_url, runs, run_base, options, ret, in_try,
                   rev_map, source_start_rev, source_end_rev, source_rev,
                   source_rev_last, target_rev, target_rev_last,
                   num_entries_proc, it_log_entries, commit_rev, handler,
                   bh_count, bh_enabled, exc, exc_at, exit_code, recovery,
                   reported, replayed, lookup, repos, source_base,
                   target_repos, wc, log_queue, log_entry, path_idx,
                   commit_paths, export_paths, source_ancestors, adds, walk,
                   svn_first, iter, source_props, target_props>>

\* Lines 102-103: "svn commit"; its output is empty when nothing changed.
CommitSvn ==
    /\ pc = "commit_svn"
    /\ IF wc_pending # {}
       THEN /\ target_log' = Append(target_log,
                  Commit(CommitRevprops(EntryRevprops(commit_rev),
                             gen_tracking_revprops(SourceUuid, source_url, commit_rev)),
                         "replay", commit_rev))
            /\ rev_num' = Len(target_log) + 1
            /\ tgt_nonempty' = TRUE
       ELSE /\ rev_num' = None
            /\ UNCHANGED <<target_log, tgt_nonempty>>
    /\ wc_pending' = {}
    /\ pc' = AfterCommit(rev_num')
    /\ UNCHANGED <<srcLog, source_url, runs, run_base, options, ret, in_try,
                   rev_map, source_start_rev, source_end_rev, source_rev,
                   source_rev_last, target_rev, target_rev_last,
                   num_entries_proc, it_log_entries, commit_rev, handler,
                   bh_count, bh_enabled, exc, exc_at, exit_code, recovery,
                   reported, replayed, lookup, repos, source_base,
                   target_repos, wc, log_queue, log_entry, path_idx,
                   commit_paths, export_paths, source_ancestors, adds, walk,
                   svn_first, iter, source_props, target_props>>

CommitSvnFail ==
    /\ pc = "commit_svn"
    /\ Raise("ExternalCommandFailed")
    /\ UNCHANGED <<srcLog, source_url, target_log, tgt_nonempty, wc_pending,
                   runs, run_base, options, ret, in_try, rev_map,
                   source_start_rev, source_end_rev, source_rev,
                   source_rev_last, target_rev, target_rev_last,
                   num_entries_proc, it_log_entries, commit_rev, rev_num,
                   handler, bh_count, bh_enabled, exit_code, recovery,
                   reported, replayed, lookup, repos, source_base,
                   target_repos, wc, log_queue, log_entry, path_idx,
                   commit_paths, export_paths, source_ancestors, adds, walk,
                   svn_first, iter, source_props, target_props>>

\* Lines 105-106: propset --revprop svn:date.
CommitDate ==
    /\ pc = "commit_date"
    /\ pc' = IF options.keep_author THEN "commit_author" ELSE "commit_disable"
    /\ UNCHANGED <<srcLog, source_url, target_log, tgt_nonempty, wc_pending,
                   runs, run_base, options, ret, in_try, rev_map,
                   source_start_rev, source_end_rev, source_rev,
                   source_rev_last, target_rev, target_rev_last,
                   num_entries_proc, it_log_entries, commit_rev, rev_num,
                   handler, bh_count, bh_enabled, exc, exc_at, exit_code,
                   recovery, reported, replayed, lookup, repos, source_base,
                   target_repos, wc, log_queue, log_entry, path_idx,
                   commit_paths, export_paths, source_ancestors, adds, walk,
                   svn_first, iter, source_props, target_props>>

CommitDateFail ==
    /\ pc = "commit_date"
    /\ Raise("ExternalCommandFailed")
    /\ UNCHANGED <<srcLog, source_url, target_log, tgt_nonempty, wc_pending,
                   runs, run_base, options, ret, in_try, rev_map,
                   source_start_rev, source_end_rev, source_rev,
                   source_rev_last, target_rev, target_rev_last,
                   num_entries_proc, it_log_entries, commit_rev, rev_num,
                   handler, bh_count, bh_enabled, exit_code, recovery,
                   reported, replayed, lookup, repos, source_base,
                   target_repos, wc, log_queue, log_entry, path_idx,
                   commit_paths, export_paths, source_ancestors, adds, walk,
                   svn_first, iter, source_props, target_props>>

\* Lines 107-109: propset --revprop svn:author.
CommitAuthor ==
    /\ pc = "commit_author"
    /\ pc' = "commit_disable"
    /\ UNCHANGED <<srcLog, source_url, target_log, tgt_nonempty, wc_pending,
                   runs, run_base, options, ret, in_try, rev_map,
                   source_start_rev, source_end_rev, source_rev,
                   source_rev_last, target_rev, target_rev_last,
                   num_entries_proc, it_log_entries, commit_rev, rev_num,
                   handler, bh_count, bh_enabled, exc, exc_at, exit_code,
                   recovery, reported, replayed, lookup, repos, source_base,
                   target_repos, wc, log_queue, log_entry, path_idx,
                   commit_paths, export_paths, source_ancestors, adds, walk,
                   svn_first, iter, source_props, target_props>>

CommitAuthorFail ==
    /\ pc = "commit_author"
    /\ Raise("ExternalCommandFailed")
    /\ UNCHANGED <<srcLog, source_url, target_log, tgt_nonempty, wc_pending,
                   runs, run_base, options, ret, in_try, rev_map,
                   source_start_rev, source_end_rev, source_rev,
                   source_rev_last, target_rev, target_rev_last,
                   num_entries_proc, it_log_entries, commit_rev, rev_num,
                   handler, bh_count, bh_enabled, exit_code, recovery,
                   reported, replayed, lookup, repos, source_base,
                   target_repos, wc, log_queue, log_entry, path_idx,
                   commit_paths, export_paths, source_ancestors, adds, walk,
                   svn_first, iter, source_props, target_props>>

\* Lines 110-114: bh.disable(), then the trapped test.
CommitDisable ==
    /\ pc = "commit_disable"
    /\ handler' = IF bh_enabled THEN "default" ELSE handler
    /\ bh_enabled' = FALSE
    /\ IF bh_count > 0
       THEN /\ Raise("KeyboardInterrupt")
            /\ UNCHANGED target_rev
       ELSE /\ target_rev' = rev_num
            /\ pc' = ret
            /\ UNCHANGED <<exc, exc_at>>
    /\ UNCHANGED <<srcLog, source_url, target_log, tgt_nonempty, wc_pending,
                   runs, run_base, options, ret, in_try, rev_map,
                   source_start_rev, source_end_rev, source_rev,
                   source_rev_last, target_rev_last, num_entries_proc,
                   it_log_entries, commit_rev, rev_num, bh_count, exit_code,
                   recovery, reported, replayed, lookup, repos, source_base,
                   target_repos, wc, log_queue, log_entry, path_idx,
                   commit_paths, export_paths, source_ancestors, adds, walk,
                   svn_first, iter, source_props, target_props>>

(***************************************************************************)
(* SIGINT.                                                                 *)
(***************************************************************************)
\* Positions at which a signal is delivered to the run: every step of the
\* replay; the recovery clauses and the final summary are taken as one step.
SignalPcs == {"force_check", "import_find", "import_apply", "import_after",
              "build_rev_map", "loop_init", "loop_next", "loop_keep_revnum",
              "keep_revnum", "pad_propset", "pad_commit", "pad_disable",
              "process", "loop_after", "loop_end", "commit_begin", "commit_svn",
              "commit_date", "commit_author", "commit_disable"}

\* A handler that gives up at the first signal.
SigIntTrappedOnce ==
    /\ pc \in SignalPcs
    /\ handler = "bh"
    /\ bh_count' = bh_count + 1
    /\ bh_enabled' = FALSE
    /\ handler' = IF bh_enabled THEN "default" ELSE handler
    /\ UNCHANGED <<srcLog, source_url, target_log, tgt_nonempty, wc_pending,
                   runs, run_base, options, pc, ret, in_try, rev_map,
                   source_start_rev, source_end_rev, source_rev,
                   source_rev_last, target_rev, target_rev_last,
                   num_entries_proc, it_log_entries, commit_rev, rev_num, exc,
                   exc_at, exit_code, recovery, reported, replayed, lookup,
                   repos, source_base, target_repos, wc, log_queue, log_entry,
                   path_idx, commit_paths, export_paths, source_ancestors,
                   adds, walk, svn_first, iter, source_props, target_props>>

\* BreakHandler.__call__, lines 81-90.
SigIntTrapped ==
    /\ pc \in SignalPcs
    /\ handler = "bh"
    /\ bh_count' = bh_count + 1
    /\ bh_enabled' = IF bh_count + 1 >= emphatic THEN FALSE ELSE bh_enabled
    /\ handler' = IF bh_count + 1 >= emphatic /\ bh_enabled THEN "default" ELSE handler
    /\ UNCHANGED <<srcLog, source_url, target_log, tgt_nonempty, wc_pending,
                   runs, run_base, options, pc, ret, in_try, rev_map,
                   source_start_rev, source_end_rev, source_rev,
                   source_rev_last, target_rev, target_rev_last,
                   num_entries_proc, it_log_entries, commit_rev, rev_num, exc,
                   exc_at, exit_code, recovery, reported, replayed, lookup,
                   repos, source_base, target_repos, wc, log_queue, log_entry,
                   path_idx, commit_paths, export_paths, source_ancestors,
                   adds, walk, svn_first, iter, source_props, target_props>>

\* Python's default handler raises KeyboardInterrupt where the run stands; a
\* step that was changing the working copy may have changed part of it.
SigIntDefault(partial) ==
    /\ pc \in SignalPcs
    /\ handler = "default"
    /\ partial => pc \in {"import_apply", "process"}
    /\ wc_pending' = IF partial
                     THEN wc_pending \cup {IF pc = "process" THEN source_rev ELSE source_start_rev}
                     ELSE wc_pending
    /\ Raise("KeyboardInterrupt")
    /\ UNCHANGED <<srcLog, source_url, target_log, tgt_nonempty, runs,
                   run_base, options, ret, in_try, rev_map, source_start_rev,
                   source_end_rev, source_rev, source_rev_last, target_rev,
                   target_rev_last, num_entries_proc, it_log_entries,
                   commit_rev, rev_num, handler, bh_count, bh_enabled,
                   exit_code, recovery, reported, replayed, lookup, repos,
                   source_base, target_repos, wc, log_queue, log_entry,
                   path_idx, commit_paths, export_paths, source_ancestors,
                   adds, walk, svn_first, iter, source_props, target_props>>

Next ==
    \/ \E o \in OptionSets : StartRun(o)
    \/ ForceCheck
    \/ ImportFind
    \/ \E content \in BOOLEAN : ImportApply(content)
    \/ \E partial \in BOOLEAN : ImportCollide(partial)
    \/ ImportAfter
    \/ BuildRevMap
    \/ LoopInit
    \/ LoopNext
    \/ LoopKeepRevnum
    \/ KeepRevnum
    \/ PadPropset
    \/ PadCommit
    \/ PadCommitFail
    \/ PadDisable
    \/ \E changed \in BOOLEAN : Process(changed)
    \/ \E type \in {"UnsupportedSVNAction", "ExternalCommandFailed"}, partial \in BOOLEAN :
          ProcessRaise(type, partial)
    \/ LoopAfter
    \/ LoopEnd
    \/ ExceptKeyboardInterrupt
    \/ ExceptOther
    \/ Finally
    \/ Uncaught
    \/ CommitBegin
    \/ CommitSvn
    \/ CommitSvnFail
    \/ CommitDate
    \/ CommitDateFail
    \/ CommitAuthor
    \/ CommitAuthorFail
    \/ CommitDisable
    \/ SigIntTrapped
    \/ SigIntDefault(FALSE)
    \/ SigIntDefault(TRUE)

Spec == Init /\ [][Next]_vars

(***************************************************************************)
(* SpecReplay: the replay of the changed paths of source revisions into    *)
(* the target working copy (process_svn_log_entry, do_svn_add,              *)
(* do_svn_add_dir), over source repositories with copies, renames and      *)
(* moved base paths.                                                       *)
(*                                                                         *)
(* Paths are sequences of characters.  A path of the source repository     *)
(* starts with "/"; a path offset (relative to the base, and to the root   *)
(* of the target working copy) does not, and the offset of the base        *)
(* itself is the empty sequence.                                           *)
(***************************************************************************)
Slash == "/"

StartsWith(s, p) == Len(s) >= Len(p) /\ SubSeq(s, 1, Len(p)) = p

\* common.py, is_child_path
is_child_path(path, p_path) == path = p_path \/ StartsWith(path, p_path \o <<Slash>>)

\* common.py, join_path (base.rstrip('/') has no effect: its result is dropped)
join_path(base, child) == IF child # <<>> THEN base \o <<Slash>> \o child ELSE base

\* s[n:]
DropFirst(s, n) == SubSeq(s, n + 1, Len(s))

\* str.replace(old, new): every non-overlapping occurrence, left to right
RECURSIVE StrReplace(_, _, _)
StrReplace(s, old, new) ==
    IF s = <<>> \/ old = <<>> THEN s
    ELSE IF StartsWith(s, old) THEN new \o StrReplace(DropFirst(s, Len(old)), old, new)
    ELSE <<Head(s)>> \o StrReplace(Tail(s), old, new)

RECURSIVE LStrip(_)
LStrip(s) == IF s # <<>> /\ Head(s) = Slash THEN LStrip(Tail(s)) ELSE s

RECURSIVE RStrip(_)
RStrip(s) ==
    IF s # <<>> /\ s[Len(s)] = Slash THEN RStrip(SubSeq(s, 1, Len(s) - 1)) ELSE s

\* str.strip("/")
Strip(s) == RStrip(LStrip(s))

\* os.path.dirname of a path offset
LastSlash(p) == IF \E i \in 1..Len(p) : p[i] = Slash
                THEN MaxOf({i \in 1..Len(p) : p[i] = Slash}) ELSE 0
dirname(p) == IF LastSlash(p) = 0 THEN <<>> ELSE RStrip(SubSeq(p, 1, LastSlash(p)))

\* The order of Python's string comparison on the characters of the model.
Alphabet == <<"/", "a", "b", "d", "e", "f", "g", "h", "o", "p", "t", "u", "w",
              "x", "y", "z">>
Ord(c) == CHOOSE i \in 1..Len(Alphabet) : Alphabet[i] = c
LexLess(a, b) ==
    \E i \in 1..(Len(a) + 1) :
        /\ i <= Len(b)
        /\ SubSeq(a, 1, i - 1) = SubSeq(b, 1, i - 1)
        /\ i = Len(a) + 1 \/ Ord(a[i]) < Ord(b[i])

\* sorted(..., key=itemgetter('path')) of records with distinct paths
RECURSIVE SortByPath(_)
SortByPath(S) ==
    IF S = {} THEN <<>>
    ELSE LET lo == CHOOSE d \in S : \A e \in S : e = d \/ LexLess(d.path, e.path)
         IN  <<lo>> \o SortByPath(S \ {lo})

RECURSIVE SortPaths(_)
SortPaths(S) ==
    IF S = {} THEN <<>>
    ELSE LET lo == CHOOSE p \in S : \A q \in S : q = p \/ LexLess(p, q)
         IN  <<lo>> \o SortPaths(S \ {lo})

MinOf(S) == CHOOSE x \in S : \A y \in S : x <= y
Min2(a, b) == IF a <= b THEN a ELSE b
Max2(a, b) == IF a >= b THEN a ELSE b
Range(s) == {s[i] : i \in 1..Len(s)}

\* "/seg1/seg2" and "seg1/seg2" from a sequence of path segments
RECURSIVE Off(_)
Off(segs) == IF segs = <<>> THEN <<>>
             ELSE IF Len(segs) = 1 THEN <<segs[1]>>
             ELSE <<segs[1], Slash>> \o Off(Tail(segs))
Abs(segs) == <<Slash>> \o Off(segs)

(***************************************************************************)
(* The source repository.  Revision r is log[r], the changed paths of the   *)
(* commit as "svn log -v --xml" reports them; tree[r] is the tree of        *)
(* revision r.  The content of a file is a number; text 0 on a copy means    *)
(* the copy did not change the content.                                    *)
(***************************************************************************)
NoFile == -1

Ch(action, kind, path, copyfrom_path, copyfrom_revision, text) ==
    [action |-> action, kind |-> kind, path |-> path,
     copyfrom_path |-> copyfrom_path, copyfrom_revision |-> copyfrom_revision,
     text |-> text]
AddDir(p) == Ch("A", "dir", p, <<>>, None, 0)
AddFile(p, text) == Ch("A", "file", p, <<>>, None, text)
CopyDir(p, from, rev) == Ch("A", "dir", p, from, rev, 0)
CopyFile(p, from, rev, text) == Ch("A", "file", p, from, rev, text)
ModFile(p, text) == Ch("M", "file", p, <<>>, None, text)
DelFile(p) == Ch("D", "file", p, <<>>, None, 0)
DelDir(p) == Ch("D", "dir", p, <<>>, None, 0)
ReplFile(p, text) == Ch("R", "file", p, <<>>, None, text)
ReplCopyFile(p, from, rev, text) == Ch("R", "file", p, from, rev, text)
ReplDir(p) == Ch("R", "dir", p, <<>>, None, 0)
ReplCopyDir(p, from, rev) == Ch("R", "dir", p, from, rev, 0)

\* The actions the program knows, and a changed path with an action outside
\* them: a file whose content the change sets.
valid_svn_actions == {"M", "A", "R", "D"}
OtherActions == {"X"}
OtherFile(p, text) == Ch("X", "file", p, <<>>, None, text)

TreeNode(kind, content) == [kind |-> kind, content |-> content]
EmptyTree == [q \in {} |-> TreeNode("dir", 0)]

Rebase(q, from, to) == to \o DropFirst(q, Len(from))

\* The tree after one changed path of a commit.
ApplyChange(T, d, trees) ==
    LET kept == IF d.action \in {"D", "R"}
                THEN [q \in {q \in DOMAIN T : ~is_child_path(q, d.path)} |-> T[q]]
                ELSE T
        src == trees[d.copyfrom_revision]
        S == {q \in DOMAIN src : is_child_path(q, d.copyfrom_path)}
        copied == [o \in {Rebase(q, d.copyfrom_path, d.path) : q \in S} |->
                      src[Rebase(o, d.path, d.copyfrom_path)]]
        own == IF d.kind = "file" /\ d.text # 0
               THEN (d.path :> TreeNode("file", d.text))
               ELSE IF d.copyfrom_revision # None THEN EmptyTree
               ELSE (d.path :> TreeNode(d.kind, d.text))
    IN  IF d.action = "D" THEN kept
        ELSE IF d.action = "M"
             THEN IF d.kind = "file" THEN (d.path :> TreeNode("file", d.text)) @@ T ELSE T
        ELSE IF d.copyfrom_revision # None THEN own @@ copied @@ kept
        ELSE own @@ kept

RECURSIVE ApplyEntry(_, _, _, _)
ApplyEntry(T, entry, i, trees) ==
    IF i > Len(entry) THEN T
    ELSE ApplyEntry(ApplyChange(T, entry[i], trees), entry, i + 1, trees)

RECURSIVE BuildTrees(_, _)
BuildTrees(log, trees) ==
    IF Len(trees) = Len(log) THEN trees
    ELSE LET prev == IF trees = <<>> THEN EmptyTree ELSE trees[Len(trees)]
         IN  BuildTrees(log, Append(trees, ApplyEntry(prev, log[Len(trees) + 1], 1, trees)))

\* parse_svn_log_xml sorts the changed paths of an entry by path.
Repository(entries) ==
    LET log == [r \in 1..Len(entries) |-> SortByPath(entries[r])]
    IN  [log |-> log, tree |-> BuildTrees(log, <<>>)]

(***************************************************************************)
(* Source histories.                                                       *)
(***************************************************************************)
\* The spec's own scenario: rename on a branch, then merge back.
\* r1 A /t, /t/x; r2 A /b (from /t@1); r3 D /b/x, A /b/y (from /b/x@2, edited);
\* r4 D /t/x, A /t/y (from /b/y@3).
HistRenameOnBranch ==
    << {AddDir(Abs(<<"t">>)), AddFile(Abs(<<"t", "x">>), 1)},
       {CopyDir(Abs(<<"b">>), Abs(<<"t">>), 1)},
       {DelFile(Abs(<<"b", "x">>)),
        CopyFile(Abs(<<"b", "y">>), Abs(<<"b", "x">>), 2, 2)},
       {DelFile(Abs(<<"t", "x">>)),
        CopyFile(Abs(<<"t", "y">>), Abs(<<"b", "y">>), 3, 0)} >>

\* The base was renamed once: r1 A /p, /p/w, /p/x; r2 M /p/x;
\* r3 D /p, A /t (from /p@2); r4 M /t/w.
HistBaseRenamed ==
    << {AddDir(Abs(<<"p">>)), AddFile(Abs(<<"p", "w">>), 1), AddFile(Abs(<<"p", "x">>), 2)},
       {ModFile(Abs(<<"p", "x">>), 3)},
       {DelDir(Abs(<<"p">>)), CopyDir(Abs(<<"t">>), Abs(<<"p">>), 2)},
       {ModFile(Abs(<<"t", "w">>), 4)} >>

\* The base was renamed twice, with a copy inside it before the first rename:
\* r1 A /p, /p/x; r2 A /p/y (from /p/x@1); r3 M /p/x;
\* r4 D /p, A /u (from /p@3); r5 D /u, A /t (from /u@4).
HistBaseRenamedTwice ==
    << {AddDir(Abs(<<"p">>)), AddFile(Abs(<<"p", "x">>), 1)},
       {CopyFile(Abs(<<"p", "y">>), Abs(<<"p", "x">>), 1, 0)},
       {ModFile(Abs(<<"p", "x">>), 2)},
       {DelDir(Abs(<<"p">>)), CopyDir(Abs(<<"u">>), Abs(<<"p">>), 3)},
       {DelDir(Abs(<<"u">>)), CopyDir(Abs(<<"t">>), Abs(<<"u">>), 4)} >>

\* A copy inside the base: r1 A /t, /t/x; r2 M /t/x; r3 A /t/y (from /t/x@1);
\* r4 A /t/z.
HistCopyInBase ==
    << {AddDir(Abs(<<"t">>)), AddFile(Abs(<<"t", "x">>), 1)},
       {ModFile(Abs(<<"t", "x">>), 2)},
       {CopyFile(Abs(<<"t", "y">>), Abs(<<"t", "x">>), 1, 0)},
       {AddFile(Abs(<<"t", "z">>), 3)} >>

\* A copy from outside the base: r1 A /o, /o/z, /t, /t/x; r2 A /t/y (from /o/z@1),
\* A /t/d, A /t/d/f.
HistCopyFromOutside ==
    << {AddDir(Abs(<<"o">>)), AddFile(Abs(<<"o", "z">>), 1),
        AddDir(Abs(<<"t">>)), AddFile(Abs(<<"t", "x">>), 2)},
       {CopyFile(Abs(<<"t", "y">>), Abs(<<"o", "z">>), 1, 0),
        AddDir(Abs(<<"t", "d">>)), AddFile(Abs(<<"t", "d", "f">>), 3)} >>

\* A directory copy with changes below it: r1 A /t, /t/d, /t/d/f, /t/d/g;
\* r2 M /t/d/g; r3 A /t/e (from /t/d@2), D /t/e/f, M /t/e/g, A /t/e/h;
\* r4 D /t/d.
HistDirCopy ==
    << {AddDir(Abs(<<"t">>)), AddDir(Abs(<<"t", "d">>)),
        AddFile(Abs(<<"t", "d", "f">>), 1), AddFile(Abs(<<"t", "d", "g">>), 2)},
       {ModFile(Abs(<<"t", "d", "g">>), 3)},
       {CopyDir(Abs(<<"t", "e">>), Abs(<<"t", "d">>), 2),
        DelFile(Abs(<<"t", "e", "f">>)), ModFile(Abs(<<"t", "e", "g">>), 4),
        AddFile(Abs(<<"t", "e", "h">>), 5)},
       {DelDir(Abs(<<"t", "d">>))} >>

\* Replaced files: r1 A /t, /t/x, /t/y; r2 R /t/x; r3 R /t/y (from /t/x@1).
HistReplace ==
    << {AddDir(Abs(<<"t">>)), AddFile(Abs(<<"t", "x">>), 1), AddFile(Abs(<<"t", "y">>), 2)},
       {ReplFile(Abs(<<"t", "x">>), 3)},
       {ReplCopyFile(Abs(<<"t", "y">>), Abs(<<"t", "x">>), 1, 0)} >>

\* A branch: r1 A /t, /t/x; r2 A /b (from /t@1); r3 M /t/x; r4 A /b/z; r5 M /b/z.
HistBranch ==
    << {AddDir(Abs(<<"t">>)), AddFile(Abs(<<"t", "x">>), 1)},
       {CopyDir(Abs(<<"b">>), Abs(<<"t">>), 1)},
       {ModFile(Abs(<<"t", "x">>), 2)},
       {AddFile(Abs(<<"b", "z">>), 3)},
       {ModFile(Abs(<<"b", "z">>), 4)} >>

\* A directory copied from outside the base: r1 A /o, /o/d, /o/d/f, /t, /t/x;
\* r2 A /t/e (from /o/d@1).
HistDirFromOutside ==
    << {AddDir(Abs(<<"o">>)), AddDir(Abs(<<"o", "d">>)), AddFile(Abs(<<"o", "d", "f">>), 1),
        AddDir(Abs(<<"t">>)), AddFile(Abs(<<"t", "x">>), 2)},
       {CopyDir(Abs(<<"t", "e">>), Abs(<<"o", "d">>), 1)} >>

\* r1 A /t, /t/d, /t/d/f, /t/x; r2 R /t/d, A /t/d/g, M /t/x
HistReplaceDir ==
    << {AddDir(Abs(<<"t">>)), AddDir(Abs(<<"t", "d">>)), AddFile(Abs(<<"t", "d", "f">>), 1),
        AddFile(Abs(<<"t", "x">>), 2)},
       {ReplDir(Abs(<<"t", "d">>)), AddFile(Abs(<<"t", "d", "g">>), 3),
        ModFile(Abs(<<"t", "x">>), 4)} >>

\* r1 A /t, /t/d, /t/d/f; r2 A /t/e (from /t/d@1), R /t/e/f
HistReplaceInCopy ==
    << {AddDir(Abs(<<"t">>)), AddDir(Abs(<<"t", "d">>)), AddFile(Abs(<<"t", "d", "f">>), 1)},
       {CopyDir(Abs(<<"t", "e">>), Abs(<<"t", "d">>), 1),
        ReplFile(Abs(<<"t", "e", "f">>), 2)} >>

\* The base is replaced by its branch.
\* r1 A /t, /t/x; r2 A /b (from /t@1); r3 M /b/x; r4 R /t (from /b@3)
HistReplaceBase ==
    << {AddDir(Abs(<<"t">>)), AddFile(Abs(<<"t", "x">>), 1)},
       {CopyDir(Abs(<<"b">>), Abs(<<"t">>), 1)},
       {ModFile(Abs(<<"b", "x">>), 2)},
       {ReplCopyDir(Abs(<<"t">>), Abs(<<"b">>), 3)} >>

\* r1 A /t, /t/x, /o; r2 X /o/z, M /t/x; r3 A /t/y, X /t/z
HistUnsupported ==
    << {AddDir(Abs(<<"t">>)), AddFile(Abs(<<"t", "x">>), 1), AddDir(Abs(<<"o">>))},
       {OtherFile(Abs(<<"o", "z">>), 2), ModFile(Abs(<<"t", "x">>), 3)},
       {AddFile(Abs(<<"t", "y">>), 4), OtherFile(Abs(<<"t", "z">>), 5)} >>

\* r1 A /t, /t/d, /t/d/f; r2 A /t/e (from /t/d@1), X /t/e/f
HistUnsupportedBelowCopy ==
    << {AddDir(Abs(<<"t">>)), AddDir(Abs(<<"t", "d">>)), AddFile(Abs(<<"t", "d", "f">>), 1)},
       {CopyDir(Abs(<<"t", "e">>), Abs(<<"t", "d">>), 1),
        OtherFile(Abs(<<"t", "e", "f">>), 2)} >>

\* A file of a copied directory is replaced by a directory in the revision of
\* the copy: r1 A /t, /t/d, /t/d/g, /t/d/h; r2 A /t/e (from /t/d@1),
\* R /t/e/g, A /t/e/g/f.
HistKindChanged ==
    << {AddDir(Abs(<<"t">>)), AddDir(Abs(<<"t", "d">>)), AddFile(Abs(<<"t", "d", "g">>), 1),
        AddFile(Abs(<<"t", "d", "h">>), 2)},
       {CopyDir(Abs(<<"t", "e">>), Abs(<<"t", "d">>), 1), ReplDir(Abs(<<"t", "e", "g">>)),
        AddFile(Abs(<<"t", "e", "g", "f">>), 3)} >>

\* The path of a copied directory occurs again below it:
\* r1 A /t, /t/d, /t/d/t, /t/d/t/e; r2 A /t/e (from /t/d@1).
HistNameRecurs ==
    << {AddDir(Abs(<<"t">>)), AddDir(Abs(<<"t", "d">>)), AddDir(Abs(<<"t", "d", "t">>)),
        AddFile(Abs(<<"t", "d", "t", "e">>), 1)},
       {CopyDir(Abs(<<"t", "e">>), Abs(<<"t", "d">>), 1)} >>

\* A directory comes back into the base through a copy outside of it.
\* r1 A /t, /t/d, /t/d/f; r2 A /o (from /t/d@1); r3 M /o/f; r4 A /t/e (from /o@3)
HistDirViaOutside ==
    << {AddDir(Abs(<<"t">>)), AddDir(Abs(<<"t", "d">>)), AddFile(Abs(<<"t", "d", "f">>), 1)},
       {CopyDir(Abs(<<"o">>), Abs(<<"t", "d">>), 1)},
       {ModFile(Abs(<<"o", "f">>), 2)},
       {CopyDir(Abs(<<"t", "e">>), Abs(<<"o">>), 3)} >>

\* A directory copied from outside the base and changed in the same revision.
\* r1 A /o, /o/d, /o/d/f, /t, /t/x; r2 A /t/e (from /o/d@1), M /t/e/f
HistDirFromOutsideModified ==
    << {AddDir(Abs(<<"o">>)), AddDir(Abs(<<"o", "d">>)), AddFile(Abs(<<"o", "d", "f">>), 1),
        AddDir(Abs(<<"t">>)), AddFile(Abs(<<"t", "x">>), 2)},
       {CopyDir(Abs(<<"t", "e">>), Abs(<<"o", "d">>), 1),
        ModFile(Abs(<<"t", "e", "f">>), 3)} >>

\* A run replays the path base of one of the histories, from --revision start.
Run(hist, base, start) == [hist |-> hist, base |-> base, start |-> start]
ReplayRuns ==
    { Run(HistRenameOnBranch, Abs(<<"t">>), 1),
      Run(HistBaseRenamed, Abs(<<"t">>), 1),
      Run(HistBaseRenamed, Abs(<<"t">>), 2),
      Run(HistBaseRenamed, Abs(<<"t">>), 3),
      Run(HistBaseRenamedTwice, Abs(<<"t">>), 1),
      Run(HistCopyInBase, Abs(<<"t">>), 1),
      Run(HistCopyInBase, Abs(<<"t">>), 2),
      Run(HistCopyFromOutside, Abs(<<"t">>), 1),
      Run(HistDirFromOutside, Abs(<<"t">>), 1),
      Run(HistDirCopy, Abs(<<"t">>), 1),
      Run(HistDirCopy, Abs(<<"t">>), 3),
      Run(HistReplace, Abs(<<"t">>), 1),
      Run(HistBranch, Abs(<<"b">>), 1),
      Run(HistBranch, Abs(<<"b">>), 4),
      Run(HistReplaceDir, Abs(<<"t">>), 1),
      Run(HistReplaceInCopy, Abs(<<"t">>), 1),
      Run(HistReplaceBase, Abs(<<"t">>), 1),
      Run(HistUnsupported, Abs(<<"t">>), 1),
      Run(HistUnsupported, Abs(<<"t">>), 3),
      Run(HistUnsupportedBelowCopy, Abs(<<"t">>), 1),
      Run(HistDirViaOutside, Abs(<<"t">>), 1),
      Run(HistDirFromOutsideModified, Abs(<<"t">>), 1),
      Run(HistKindChanged, Abs(<<"t">>), 1) }


(***************************************************************************)
(* "svn log" and "svn list" on the source repository.                       *)
(***************************************************************************)
SrcExists(path, rev) == rev \in 1..Len(repos.tree) /\ path \in DOMAIN repos.tree[rev]

\* The changed paths of revision r that created `path`: an A or R of the path
\* or of a directory above it.
Creators(path, r) ==
    {d \in Range(repos.log[r]) : d.action \in {"A", "R"} /\ is_child_path(path, d.path)}

\* The revision in which the node path@rev was created.
CreationRev(path, rev) == MaxOf({r \in 1..rev : Creators(path, r) # {}})

\* The deepest creating change.
Deepest(S) == CHOOSE d \in S : \A e \in S : Len(e.path) <= Len(d.path)
Creator(path, r) == Deepest(Creators(path, r))

Touches(path, r) == \E d \in Range(repos.log[r]) : is_child_path(d.path, path)

\* The revisions that changed the node created in c, or something below it.
OwnRevs(path, c, peg) == {c} \cup {r \in (c + 1)..peg : Touches(path, r)}

\* The revisions "svn log path@peg" reports: those that changed the node or
\* something below it since its creation and, without --stop-on-copy, those
\* of the node it was copied from.
RECURSIVE HistoryRevs(_, _, _)
HistoryVia(path, peg, stop_on_copy, c, d) ==
    IF stop_on_copy \/ d.copyfrom_revision = None THEN OwnRevs(path, c, peg)
    ELSE OwnRevs(path, c, peg)
             \cup HistoryRevs(Rebase(path, d.path, d.copyfrom_path), d.copyfrom_revision, FALSE)
HistoryFrom(path, peg, stop_on_copy, c) ==
    HistoryVia(path, peg, stop_on_copy, c, Creator(path, c))
HistoryRevs(path, peg, stop_on_copy) ==
    HistoryFrom(path, peg, stop_on_copy, CreationRev(path, peg))

RECURSIVE DescendingSeq(_)
DescendingSeq(S) ==
    IF S = {} THEN <<>> ELSE <<MaxOf(S)>> \o DescendingSeq(S \ {MaxOf(S)})

FirstN(s, n) == SubSeq(s, 1, Min2(n, Len(s)))
OrderRevs(S, ascending) == IF ascending THEN AscendingSeq(S) ELSE DescendingSeq(S)
Between(S, lo, hi) == {r \in S : lo <= r /\ r <= hi}

\* svnclient.run_svn_log: svn log -r rev_start:rev_end --limit limit url@max(...)
\* The result holds the revisions of the entries; the command fails when the
\* path does not exist at the peg revision.
run_svn_log(path, rev_start, rev_end, limit, stop_on_copy) ==
    IF ~SrcExists(path, Max2(rev_start, rev_end)) THEN [ok |-> FALSE, revs |-> <<>>]
    ELSE [ok |-> TRUE,
          revs |-> FirstN(OrderRevs(Between(HistoryRevs(path, Max2(rev_start, rev_end),
                                                        stop_on_copy),
                                            Min2(rev_start, rev_end),
                                            Max2(rev_start, rev_end)),
                                    rev_start <= rev_end),
                          limit)]

\* svnclient.list(url, rev): the immediate children, by name; an empty list
\* when the path does not exist.
ChildNames(T, path) ==
    {DropFirst(q, Len(path) + 1) :
        q \in {q \in DOMAIN T : q # path /\ is_child_path(q, path) /\ dirname(q) = path}}
Listing(T, path, names) ==
    [i \in 1..Len(names) |-> [path |-> names[i], kind |-> T[join_path(path, names[i])].kind]]
ListRemote(path, rev) ==
    IF ~SrcExists(path, rev) THEN <<>>
    ELSE Listing(repos.tree[rev], path, SortPaths(ChildNames(repos.tree[rev], path)))

(***************************************************************************)
(* common.py, find_svn_ancestors.                                          *)
(***************************************************************************)
Ancestor(path, revision, copyfrom_path, copyfrom_rev) ==
    [path |-> path, revision |-> revision,
     copyfrom_path |-> copyfrom_path, copyfrom_rev |-> copyfrom_rev]

\* The changed paths at or above cur_path, deepest first.
Matches(rev, cur_path) ==
    Reverse(SortByPath({d \in Range(repos.log[rev]) : is_child_path(cur_path, d.path)}))

\* A search that looks at the deepest match only.
FirstActionDeepest(matches, i) ==
    IF i > Len(matches) \/ matches[i].action = "M" THEN 0 ELSE i

\* The first match that is not an "M".
RECURSIVE FirstAction(_, _)
FirstAction(matches, i) ==
    IF i > Len(matches) THEN 0
    ELSE IF matches[i].action \in {"D", "A", "R"} THEN i
    ELSE FirstAction(matches, i + 1)

\* One pass of the while loop; stop_base_path is <<>> for "no stop_base_path".
RECURSIVE find_svn_ancestors_loop(_, _, _, _, _)

\* Lines 124-134: a copy is followed to its source.
FollowCopy(cur_path, rev, stop_base_path, ancestors, d, from) ==
    find_svn_ancestors_loop(from, d.copyfrom_revision, stop_base_path, TRUE,
                            Append(ancestors,
                                   Ancestor(cur_path, rev, from, d.copyfrom_revision)))

\* Lines 107-139: a delete or a plain add ends the chain, without ancestry
\* when a stop_base_path was asked for.
FindAction(cur_path, rev, stop_base_path, ancestors, d) ==
    IF d.action = "D" \/ d.copyfrom_revision = None
    THEN [err |-> "", ancestors |-> IF stop_base_path # <<>> THEN <<>> ELSE ancestors]
    ELSE FollowCopy(cur_path, rev, stop_base_path, ancestors, d,
                    StrReplace(cur_path, d.path, d.copyfrom_path))

\* Lines 99-103: the for loop meets an action outside valid_svn_actions
\* before it ends at match k (k = 0: it ends without a break).
Unsupported(matches, k) ==
    \E j \in 1..(IF k = 0 THEN Len(matches) ELSE k) :
        matches[j].action \notin valid_svn_actions

\* Lines 81-106: the changed paths of the revision that match cur_path.
FindMatch(cur_path, rev, stop_base_path, ancestors, matches, k) ==
    IF matches = <<>> THEN [err |-> "", ancestors |-> ancestors]
    ELSE IF Unsupported(matches, k)
         THEN [err |-> "UnsupportedSVNAction", ancestors |-> <<>>]
    ELSE IF k = 0 THEN [err |-> "NoProgress", ancestors |-> <<>>]
    ELSE FindAction(cur_path, rev, stop_base_path, ancestors, matches[k])

FindMatches(cur_path, rev, stop_base_path, ancestors, matches) ==
    FindMatch(cur_path, rev, stop_base_path, ancestors, matches, FirstAction(matches, 1))

\* Lines 68-79: the oldest log entry of cur_path under --stop-on-copy.
FindFirst(cur_path, stop_base_path, first_iter_done, ancestors, first) ==
    IF ~first.ok THEN [err |-> "ExternalCommandFailed", ancestors |-> <<>>]
    ELSE IF first.revs = <<>> THEN [err |-> "EmptySVNLog", ancestors |-> <<>>]
    ELSE IF stop_base_path # <<>> /\ first_iter_done
            /\ is_child_path(cur_path, stop_base_path)
         THEN [err |-> "", ancestors |-> ancestors]
    ELSE FindMatches(cur_path, first.revs[1], stop_base_path, ancestors,
                     Matches(first.revs[1], cur_path))

find_svn_ancestors_loop(cur_path, cur_rev, stop_base_path, first_iter_done, ancestors) ==
    FindFirst(cur_path, stop_base_path, first_iter_done, ancestors,
              run_svn_log(cur_path, 1, cur_rev, 1, TRUE))

find_svn_ancestors(start_path, start_rev, stop_base_path) ==
    find_svn_ancestors_loop(start_path, start_rev, stop_base_path, FALSE, <<>>)

(***************************************************************************)
(* svnclient.iter_svn_log_entries with a pre-computed ancestors list.  An   *)
(* entry is the revision with the URL (here: path) it was logged under; a   *)
(* failing svn log ends the sequence with a failure mark, which is raised   *)
(* when the iteration reaches it.                                          *)
(***************************************************************************)
log_min_chunk_length == 10
log_max_chunk_length == 10000

LogEntry(revision, url) == [revision |-> revision, url |-> url, failed |-> FALSE]
LogFailure == [revision |-> None, url |-> <<>>, failed |-> TRUE]

\* The part of the ancestry the iterator is in: the URL to log, the next
\* revision, the index into ancestors and the last revision of the part.  The
\* model counts ancestors from 1: ancestors[idx] of the code is anc[idx+1].
Segment(url, rev, idx, end) == [url |-> url, rev |-> rev, idx |-> idx, end |-> end]

\* Lines 343-354: past the end of the part, the next younger one is entered.
NextSegment(anc, cur_url, cur_rev, cur_anc_idx, cur_anc_end_rev) ==
    IF cur_anc_end_rev # None /\ cur_rev >= cur_anc_end_rev
    THEN IF cur_anc_idx - 1 >= 0
         THEN Segment(anc[cur_anc_idx].copyfrom_path, anc[cur_anc_idx + 1].revision,
                      cur_anc_idx - 1, anc[cur_anc_idx].copyfrom_rev)
         ELSE Segment(anc[1].path, anc[cur_anc_idx + 1].revision, cur_anc_idx - 1, None)
    ELSE Segment(cur_url, cur_rev, cur_anc_idx, cur_anc_end_rev)

\* Lines 357-358
StopRev(last_rev, s, chunk_length) ==
    IF s.end # None THEN Min2(Min2(last_rev, s.rev + chunk_length), s.end)
    ELSE Min2(last_rev, s.rev + chunk_length)

Yielded(revs, url) == [i \in 1..Len(revs) |-> LogEntry(revs[i], url)]

RECURSIVE iter_loop(_, _, _, _, _, _, _, _)

\* Lines 359-379: the entries of one chunk are yielded.
IterFetched(anc, last_rev, s, stop_rev, chunk_length, out, entries) ==
    IF ~entries.ok THEN Append(out, LogFailure)
    ELSE IF entries.revs # <<>>
         THEN IF entries.revs[Len(entries.revs)] >= last_rev
              THEN out \o Yielded(entries.revs, s.url)
              ELSE iter_loop(anc, last_rev, s.url, entries.revs[Len(entries.revs)] + 1,
                             s.idx, s.end, Min2(log_max_chunk_length, chunk_length * 2),
                             out \o Yielded(entries.revs, s.url))
    ELSE iter_loop(anc, last_rev, s.url, stop_rev + 1, s.idx, s.end,
                   Min2(log_max_chunk_length, chunk_length * 2), out)

IterChunk(anc, last_rev, s, stop_rev, chunk_length, out) ==
    IterFetched(anc, last_rev, s, stop_rev, chunk_length, out,
                run_svn_log(s.url, s.rev, stop_rev, chunk_length, FALSE))

IterSegment(anc, last_rev, s, chunk_length, out) ==
    IterChunk(anc, last_rev, s, StopRev(last_rev, s, chunk_length), chunk_length, out)

iter_loop(anc, last_rev, cur_url, cur_rev, cur_anc_idx, cur_anc_end_rev, chunk_length, out) ==
    IF cur_rev > last_rev THEN out
    ELSE IterSegment(anc, last_rev,
                     NextSegment(anc, cur_url, cur_rev, cur_anc_idx, cur_anc_end_rev),
                     chunk_length, out)

\* Lines 326-339: the part of the ancestry first_rev lies in, by the test
\* "first_rev < copyfrom_rev" from the eldest ancestor on.
SegmentHits(anc, first_rev) == {i \in 1..Len(anc) : first_rev < anc[i].copyfrom_rev}
PreSegment(svn_url, anc, first_rev, hits) ==
    IF anc = <<>> THEN Segment(svn_url, first_rev, -1, None)
    ELSE IF hits = {} THEN Segment(anc[1].path, first_rev, -1, None)
    ELSE Segment(anc[MaxOf(hits)].copyfrom_path, first_rev, MaxOf(hits) - 1,
                 anc[MaxOf(hits)].copyfrom_rev)

IterStart(anc, last_rev, s) ==
    iter_loop(anc, last_rev, s.url, s.rev, s.idx, s.end, log_min_chunk_length, <<>>)

IterFrom(svn_url, last_rev, anc, first_rev) ==
    IterStart(anc, last_rev,
              PreSegment(svn_url, anc, first_rev, SegmentHits(anc, first_rev)))

\* Lines 316-319: with first_rev 1 the first revision of the URL is looked up.
IterChecked(svn_url, first_rev_arg, last_rev, anc, start_log) ==
    IF first_rev_arg = 1 /\ (~start_log.ok \/ start_log.revs = <<>>) THEN <<LogFailure>>
    ELSE IterFrom(svn_url, last_rev, anc,
                  IF first_rev_arg = 1 /\ start_log.revs[1] > first_rev_arg
                  THEN start_log.revs[1] ELSE first_rev_arg)

iter_svn_log_entries_ancestors(svn_url, first_rev_arg, last_rev, anc) ==
    IterChecked(svn_url, first_rev_arg, last_rev, anc,
                run_svn_log(svn_url, first_rev_arg, last_rev, 1, FALSE))

(***************************************************************************)
(* The target working copy and repository.  A node of the working copy      *)
(* holds its kind, its status as "svn status" reports it, whether it is     *)
(* part of a copy, the content on disk (NoFile: nothing on disk) and the    *)
(* pristine content (NoFile: none).  The root of the working copy is the    *)
(* empty offset.  A revision of the target repository holds its tree and    *)
(* the offsets the commit changed.                                         *)
(***************************************************************************)
WcNode(kind, st, copied, disk, base) ==
    [kind |-> kind, st |-> st, copied |-> copied, disk |-> disk, base |-> base]
WcRoot == WcNode("dir", "normal", FALSE, 0, 0)
EmptyWc == (<<>> :> WcRoot)

\* offset q is p or below p
Below(q, p) == p = <<>> \/ is_child_path(q, p)
OffJoin(p, name) == IF p = <<>> THEN name ELSE p \o <<Slash>> \o name

HeadRev == Len(target_repos)
HeadTree == IF target_repos = <<>> THEN EmptyTree ELSE target_repos[HeadRev].tree

\* A checked-out working copy of a tree.
WcOf(T) == [q \in DOMAIN T |-> WcNode(T[q].kind, "normal", FALSE, T[q].content, T[q].content)]
             @@ EmptyWc

\* svn status --xml -N p, first entry, as parse_svn_status_xml reads it: type
\* is 'normal' when the wc-status carries a revision attribute.
HasRevision(n) == n.st # "unversioned" /\ ~n.copied

in_svn(w, p, require_in_repo) ==
    IF p \notin DOMAIN w THEN FALSE
    ELSE LET n == w[p]
         IN  IF require_in_repo /\ (n.st = "added" \/ ~HasRevision(n)) THEN FALSE
             ELSE n.st # "deleted" /\ (HasRevision(n) \/ n.st = "added" \/ n.copied)

Exists(w, p) == p \in DOMAIN w /\ w[p].disk # NoFile
Versioned(w, p) == p \in DOMAIN w /\ w[p].st \in {"normal", "added", "replaced"}

\* The state threaded through the handlers of one log entry: the working
\* copy, export_paths, the record of do_svn_add's decisions and the exception
\* raised, if any.
Ok(W) == W.err = ""
Fail(W, e) == [W EXCEPT !.err = e]

\* os.makedirs(p)
makedirs(W, p) ==
    IF ~Ok(W) THEN W
    ELSE LET above == {q \in {SubSeq(p, 1, i) : i \in 1..Len(p)} :
                          q = p \/ (Len(q) < Len(p) /\ p[Len(q) + 1] = Slash)}
             new == {q \in above : ~Exists(W.wc, q)}
         IN  [W EXCEPT !.wc = [q \in new |->
                 IF q \in DOMAIN W.wc THEN [W.wc[q] EXCEPT !.disk = 0, !.kind = "dir"]
                 ELSE WcNode("dir", "unversioned", FALSE, 0, NoFile)] @@ W.wc]

\* svn mkdir p: the parent is a versioned directory on disk.
svn_mkdir(W, p) ==
    IF ~Ok(W) THEN W
    ELSE IF Exists(W.wc, p) \/ ~Exists(W.wc, dirname(p)) \/ ~Versioned(W.wc, dirname(p))
         THEN Fail(W, "ExternalCommandFailed")
    ELSE [W EXCEPT !.wc = (p :> WcNode("dir",
                                      IF p \in DOMAIN W.wc /\ W.wc[p].st = "deleted"
                                      THEN "replaced" ELSE "added",
                                      FALSE, 0,
                                      IF p \in DOMAIN W.wc THEN W.wc[p].base ELSE NoFile))
                          @@ W.wc]

\* svnclient.export(url, rev, path, force=True): the files and directories
\* of path@rev are written to disk; the status of a node does not change.
svn_export(W, src, rev, dest, recursive) ==
    IF ~Ok(W) THEN W
    ELSE IF ~SrcExists(src, rev) \/ ~Exists(W.wc, dirname(dest))
         THEN Fail(W, "ExternalCommandFailed")
    ELSE LET T == repos.tree[rev]
             S == {q \in DOMAIN T : q = src \/ (recursive /\ is_child_path(q, src))}
             Dst(q) == IF q = src THEN dest ELSE OffJoin(dest, DropFirst(q, Len(src) + 1))
             Src(o) == CHOOSE q \in S : Dst(q) = o
         IN  [W EXCEPT !.wc = [o \in {Dst(q) : q \in S} |->
                 IF o \in DOMAIN W.wc
                 THEN [W.wc[o] EXCEPT !.disk = T[Src(o)].content]
                 ELSE WcNode(T[Src(o)].kind, "unversioned", FALSE,
                             T[Src(o)].content, NoFile)] @@ W.wc]

\* svn add [--parents] p: p and everything unversioned below it, and with
\* --parents the unversioned directories above it.
svn_add(W, p, parents) ==
    IF ~Ok(W) THEN W
    ELSE IF ~Exists(W.wc, p) \/ Versioned(W.wc, p)
            \/ (~parents /\ ~Versioned(W.wc, dirname(p)))
         THEN Fail(W, "ExternalCommandFailed")
    ELSE LET new == {q \in DOMAIN W.wc :
                        /\ W.wc[q].disk # NoFile
                        /\ ~Versioned(W.wc, q)
                        /\ Below(q, p) \/ (q # <<>> /\ Below(p, q))}
         IN  [W EXCEPT !.wc = [q \in new |->
                 [W.wc[q] EXCEPT !.st = IF @ = "deleted" THEN "replaced" ELSE "added",
                                 !.copied = FALSE]] @@ W.wc]

\* svn copy -r rev target_url/src@rev dest: the nodes of the target tree at
\* rev appear at dest as a copy.
svn_copy(W, src, rev, dest) ==
    IF ~Ok(W) THEN W
    ELSE IF rev \notin 1..HeadRev THEN Fail(W, "ExternalCommandFailed")
    ELSE LET T == (<<>> :> TreeNode("dir", 0)) @@ target_repos[rev].tree
             S == {q \in DOMAIN T : Below(q, src)}
             Dst(q) == IF q = src THEN dest
                       ELSE OffJoin(dest, DropFirst(q, IF src = <<>> THEN 0 ELSE Len(src) + 1))
             Src(o) == CHOOSE q \in S : Dst(q) = o
         IN  IF src \notin DOMAIN T \/ Exists(W.wc, dest) \/ ~Versioned(W.wc, dirname(dest))
             THEN Fail(W, "ExternalCommandFailed")
             ELSE [W EXCEPT !.wc = [o \in {Dst(q) : q \in S} |->
                     WcNode(T[Src(o)].kind,
                            IF o # dest THEN "normal"
                            ELSE IF o \in DOMAIN W.wc /\ W.wc[o].st = "deleted"
                            THEN "replaced" ELSE "added",
                            TRUE, T[Src(o)].content, T[Src(o)].content)] @@ W.wc]

\* svnclient.update(p): the working copy is at HEAD already.
svn_update(W, p) == W

\* svnclient.remove(p, force=True): what was added or copied here goes away,
\* what the repository holds is scheduled for deletion.
svn_remove(W, p) ==
    IF ~Ok(W) THEN W
    ELSE IF p \notin DOMAIN W.wc THEN Fail(W, "ExternalCommandFailed")
    ELSE LET sub == {q \in DOMAIN W.wc : Below(q, p)}
             InRemovedCopy(q) ==
                 \E r \in sub : /\ W.wc[r].copied
                                /\ W.wc[r].st \in {"added", "replaced"}
                                /\ Below(q, r)
                                /\ q # r \/ W.wc[r].st = "added"
             gone == {q \in sub :
                         \/ W.wc[q].st = "unversioned"
                         \/ W.wc[q].st = "added" /\ ~W.wc[q].copied
                         \/ W.wc[q].copied /\ InRemovedCopy(q)}
         IN  [W EXCEPT !.wc = [q \in DOMAIN W.wc \ gone |->
                 IF q \in sub
                 THEN [W.wc[q] EXCEPT !.st = "deleted", !.copied = FALSE, !.disk = NoFile]
                 ELSE W.wc[q]]]


\* svnclient.list(p) on a path of the working copy: the children the
\* pristine copy of the directory holds, by name; an empty list when the
\* directory has none.
LocalNames(w, p) ==
    {DropFirst(q, IF p = <<>> THEN 0 ELSE Len(p) + 1) :
        q \in {q \in DOMAIN w : q # p /\ dirname(q) = p /\ w[q].base # NoFile}}
LocalListing(w, p, names) ==
    [i \in 1..Len(names) |-> [path |-> names[i], kind |-> w[OffJoin(p, names[i])].kind]]
ListLocal(w, p) ==
    IF p \notin DOMAIN w \/ w[p].base = NoFile THEN <<>>
    ELSE LocalListing(w, p, SortPaths(LocalNames(w, p)))

\* add_path(export_paths, path)
path_in_list(paths, path) == \E i \in 1..Len(paths) : is_child_path(path, paths[i])
add_path(W, path) ==
    IF ~Ok(W) \/ path_in_list(W.export_paths, path) THEN W
    ELSE [W EXCEPT !.export_paths = Append(@, path)]

\* The last changed revision of a path of the target repository
\* (get_last_svn_log_entry(path_offset, 1, 'HEAD')).
ChangedRevs(p) == {t \in 1..HeadRev : \E q \in target_repos[t].changed : Below(q, p)}
LastOf(S) == IF S = {} THEN None ELSE MaxOf(S)
TargetLastRev(p) == LastOf(ChangedRevs(p))

(***************************************************************************)
(* svnreplay.py, in_ancestors, do_svn_add and do_svn_add_dir.              *)
(***************************************************************************)
\* for idx in range(len(ancestors)-1, 0, -1): the first idx, from the eldest,
\* whose revision is later than the ancestor's.
LaterThan(ancestors, ancestor) ==
    {i \in 2..Len(ancestors) : ancestors[i].revision > ancestor.revision}
InLatest(ancestors, ancestor, later) ==
    IF later = {} THEN TRUE ELSE is_child_path(ancestor.path, ancestors[MaxOf(later)].path)
in_ancestors(ancestors, ancestor) ==
    InLatest(ancestors, ancestor, LaterThan(ancestors, ancestor))

\* A test that does not ask for a mapped target revision.
CopyGuardUnmapped(found_ancestor, tgt_rev) == found_ancestor

\* The test under which do_svn_add copies: "if found_ancestor and tgt_rev".
CopyGuard(found_ancestor, tgt_rev) == found_ancestor /\ tgt_rev # None

\* The arguments of one call of do_svn_add.
Call(src_base, path_offset, src_rev, parent_copyfrom_path, parent_copyfrom_rev, is_dir, skip_paths, depth) ==
    [src_base |-> src_base, path_offset |-> path_offset, src_rev |-> src_rev,
     parent_copyfrom_path |-> parent_copyfrom_path,
     parent_copyfrom_rev |-> parent_copyfrom_rev,
     is_dir |-> is_dir, skip_paths |-> skip_paths, depth |-> depth]

\* Lines 488-501: the eldest ancestor of the chain, kept when in_ancestors
\* accepts it, and the target revision rev_map holds for its copy-from.
Plan(chain, kept) ==
    [chain |-> chain, kept |-> kept,
     copyfrom_path |-> IF kept THEN chain[Len(chain)].copyfrom_path ELSE <<>>,
     copyfrom_rev |-> IF kept THEN chain[Len(chain)].copyfrom_rev ELSE None,
     tgt_rev |-> IF kept THEN get_rev_map(rev_map, chain[Len(chain)].copyfrom_rev)
                 ELSE None]
Resolve(chain) ==
    Plan(chain, chain # <<>> /\ in_ancestors(source_ancestors, chain[Len(chain)]))

NodeAt(w, p) ==
    IF p \in DOMAIN w THEN w[p] ELSE WcNode("none", "none", FALSE, NoFile, NoFile)

\* What do_svn_add decided for one path, the node it found and the node it
\* left, appended to the record of the decisions.
Decided(W, Wn, c, plan, branch, copy_src, copy_rev) ==
    [Wn EXCEPT !.adds = Append(@,
        [source_rev |-> c.src_rev, source_base |-> c.src_base,
         path_offset |-> c.path_offset, depth |-> c.depth, is_dir |-> c.is_dir,
         chain |-> plan.chain, kept |-> plan.kept, lookup |-> plan.tgt_rev,
         versioned |-> in_svn(W.wc, c.path_offset, FALSE),
         branch |-> branch, copy_src |-> copy_src, copy_rev |-> copy_rev,
         before |-> NodeAt(W.wc, c.path_offset),
         after |-> NodeAt(Wn.wc, c.path_offset),
         err |-> Wn.err])]

\* copyfrom_path[len(source_base):].strip('/')
CopyFromOffset(c, plan) == Strip(DropFirst(plan.copyfrom_path, Len(c.src_base)))

\* Lines 516-518
SameAsParent(W, c, plan) ==
    /\ in_svn(W.wc, c.path_offset, FALSE)
    /\ c.parent_copyfrom_path # <<>>
    /\ is_child_path(plan.copyfrom_path, c.parent_copyfrom_path)
    /\ c.parent_copyfrom_rev # None
    /\ plan.copyfrom_rev = c.parent_copyfrom_rev

\* Line 510: the last log entry of a path the repository holds.
LastCommitted(W, c) ==
    IF in_svn(W.wc, c.path_offset, TRUE) THEN TargetLastRev(c.path_offset) ELSE None

\* Lines 532-536
RemoveIfVersioned(W, p) ==
    IF in_svn(W.wc, p, FALSE) THEN svn_remove(svn_update(W, p), p) ELSE W

\* A directory is queued in export_paths, a file is exported at once.
ExportOrDefer(W, is_dir, src_base, src_rev, path_offset) ==
    IF is_dir THEN add_path(W, path_offset)
    ELSE svn_export(W, join_path(src_base, path_offset), src_rev, path_offset, TRUE)

\* Lines 532-543: svn copy from the target repository, then the export.
CopyWithHistory(W, c, plan) ==
    ExportOrDefer(svn_copy(RemoveIfVersioned(W, c.path_offset), CopyFromOffset(c, plan),
                           plan.tgt_rev, c.path_offset),
                  c.is_dir, c.src_base, c.src_rev, c.path_offset)

\* p_path = path_offset if is_dir else os.path.dirname(path_offset).strip() or None
ParentPath(path_offset, is_dir) == IF is_dir THEN path_offset ELSE dirname(path_offset)
MkdirIfMissing(W, p_path) ==
    IF p_path # <<>> /\ ~Exists(W.wc, p_path) THEN svn_mkdir(W, p_path) ELSE W

\* Lines 557-566: export and "svn add --parents" of a path that is not
\* under version control.
ExportAndAdd(W, c) ==
    IF in_svn(W.wc, c.path_offset, FALSE) THEN W
    ELSE svn_add(ExportOrDefer(W, c.is_dir, c.src_base, c.src_rev, c.path_offset),
                 c.path_offset, TRUE)

\* Lines 554-566
AddWithoutHistory(W, c) ==
    ExportAndAdd(MkdirIfMissing(W, ParentPath(c.path_offset, c.is_dir)), c)

\* Lines 509-546
AddWithHistory(W, c, plan, last_rev) ==
    IF last_rev # None /\ last_rev = plan.tgt_rev
    THEN Decided(W, W, c, plan, "skip", <<>>, None)
    ELSE IF SameAsParent(W, c, plan)
         THEN Decided(W, W, c, plan, "same_as_parent", <<>>, None)
    ELSE Decided(W, CopyWithHistory(W, c, plan), c, plan, "copy",
                 CopyFromOffset(c, plan), plan.tgt_rev)

\* Line 510 with svnclient.py 224-228: for the root of the working copy the
\* log is asked of "" + "@HEAD", which svn refuses.
LogOfRootFails(W, c) == c.path_offset = <<>> /\ in_svn(W.wc, c.path_offset, TRUE)

\* Line 506: "if found_ancestor and tgt_rev"
AddSelf(W, c, plan) ==
    IF CopyGuard(plan.kept, plan.tgt_rev) /\ LogOfRootFails(W, c)
    THEN Decided(W, Fail(W, "ExternalCommandFailed"), c, plan, "failed", <<>>, None)
    ELSE IF CopyGuard(plan.kept, plan.tgt_rev)
    THEN AddWithHistory(W, c, plan, LastCommitted(W, c))
    ELSE Decided(W, AddWithoutHistory(W, c), c, plan, "fallback", <<>>, None)

RECURSIVE do_svn_add(_, _, _, _, _, _, _, _, _)
RECURSIVE do_svn_add_dir(_, _, _, _, _, _, _, _)
RECURSIVE AddChildren(_, _, _, _, _, _, _, _, _, _)
RECURSIVE RemoveLocals(_, _, _, _, _)

\* Lines 569-573: the children of a directory.
AddBelow(W, c, plan) ==
    IF c.is_dir
    THEN do_svn_add_dir(W, c.src_base, c.path_offset, c.src_rev, plan.copyfrom_path,
                        plan.copyfrom_rev, c.skip_paths, c.depth)
    ELSE W

AddPlanned(W, c, plan) == AddBelow(AddSelf(W, c, plan), c, plan)

AddFound(W, c, found) ==
    IF found.err # "" THEN Fail(W, found.err)
    ELSE AddPlanned(W, c, Resolve(found.ancestors))

do_svn_add(W, src_base, path_offset, src_rev, parent_copyfrom_path, parent_copyfrom_rev, is_dir, skip_paths, depth) ==
    IF ~Ok(W) THEN W
    ELSE AddFound(W,
                  Call(src_base, path_offset, src_rev, parent_copyfrom_path,
                       parent_copyfrom_rev, is_dir, skip_paths, depth),
                  find_svn_ancestors(join_path(src_base, path_offset), src_rev, src_base))

\* A recursion that does not consult skip_paths.
AddChildAll(W, src_base, working_path, src_rev, parent_copyfrom_path, parent_copyfrom_rev, is_dir, skip_paths, depth) ==
    do_svn_add(W, src_base, working_path, src_rev, parent_copyfrom_path,
               parent_copyfrom_rev, is_dir, skip_paths, depth)

\* for p in paths_remote: ... do_svn_add(working_path, ...)
AddChild(W, src_base, working_path, src_rev, parent_copyfrom_path, parent_copyfrom_rev, is_dir, skip_paths, depth) ==
    IF working_path \in skip_paths THEN W
    ELSE do_svn_add(W, src_base, working_path, src_rev, parent_copyfrom_path,
                    parent_copyfrom_rev, is_dir, skip_paths, depth)

AddChildren(W, src_base, path_offset, src_rev, parent_copyfrom_path, parent_copyfrom_rev, skip_paths, depth, paths_remote, i) ==
    IF i > Len(paths_remote) THEN W
    ELSE AddChildren(AddChild(W, src_base,
                              LStrip(join_path(path_offset, paths_remote[i].path)),
                              src_rev, parent_copyfrom_path, parent_copyfrom_rev,
                              paths_remote[i].kind = "dir", skip_paths, depth + 1),
                     src_base, path_offset, src_rev, parent_copyfrom_path,
                     parent_copyfrom_rev, skip_paths, depth, paths_remote, i + 1)

\* for p in paths_local: if not p in paths_remote: update, remove
RemoveLocal(W, working_path, listed) ==
    IF listed THEN W ELSE svn_remove(svn_update(W, working_path), working_path)

\* A removal that compares the names of the listings only.
RECURSIVE RemoveLocalsByName(_, _, _, _, _)
RemoveLocalsByName(W, path_offset, paths_local, paths_remote, i) ==
    IF i > Len(paths_local) THEN W
    ELSE RemoveLocalsByName(RemoveLocal(W, LStrip(join_path(path_offset, paths_local[i].path)),
                                        \E j \in 1..Len(paths_remote) : paths_remote[j].path = paths_local[i].path),
                            path_offset, paths_local, paths_remote, i + 1)

RemoveLocals(W, path_offset, paths_local, paths_remote, i) ==
    IF i > Len(paths_local) THEN W
    ELSE RemoveLocals(RemoveLocal(W, LStrip(join_path(path_offset, paths_local[i].path)),
                                  paths_local[i] \in Range(paths_remote)),
                      path_offset, paths_local, paths_remote, i + 1)

SyncDir(W, src_base, path_offset, src_rev, parent_copyfrom_path, parent_copyfrom_rev, skip_paths, depth, paths_local, paths_remote) ==
    RemoveLocals(AddChildren(W, src_base, path_offset, src_rev, parent_copyfrom_path,
                             parent_copyfrom_rev, skip_paths, depth, paths_remote, 1),
                 path_offset, paths_local, paths_remote, 1)

do_svn_add_dir(W, src_base, path_offset, src_rev, parent_copyfrom_path, parent_copyfrom_rev, skip_paths, depth) ==
    IF ~Ok(W) THEN W
    ELSE SyncDir(W, src_base, path_offset, src_rev, parent_copyfrom_path,
                 parent_copyfrom_rev, skip_paths, depth,
                 ListLocal(W.wc, path_offset),
                 ListRemote(join_path(src_base, path_offset), src_rev))

(***************************************************************************)
(* svn commit of the working copy.                                         *)
(***************************************************************************)
Changed(n) ==
    \/ n.st \in {"added", "replaced", "deleted"}
    \/ n.copied
    \/ n.st = "normal" /\ n.kind = "file" /\ n.disk # n.base

\* A commit that takes the paths given and nothing below them.
CommitSetNotBelow(w, paths) ==
    {q \in DOMAIN w : Changed(w[q])
                      /\ (paths = <<>> \/ \E i \in 1..Len(paths) : q = paths[i])}

\* The offsets svn commit takes: everything changed, or what is changed at or
\* below the paths given.
CommitSet(w, paths) ==
    {q \in DOMAIN w : Changed(w[q])
                      /\ (paths = <<>> \/ \E i \in 1..Len(paths) : Below(q, paths[i]))}

\* svn commit fails for a path that is not under version control, and for a
\* new node whose parent is new and not part of the commit.
CommitFails(w, paths, cs) ==
    \/ \E i \in 1..Len(paths) :
          paths[i] \notin DOMAIN w \/ w[paths[i]].st = "unversioned"
    \/ \E q \in cs :
          /\ w[q].st \in {"added", "replaced"}
          /\ q # <<>>
          /\ dirname(q) \in DOMAIN w
          /\ w[dirname(q)].st = "added"
          /\ dirname(q) \notin cs

\* The nodes of HEAD a commit of cs takes away.
Removed(w, cs) ==
    {q \in DOMAIN HeadTree : \E r \in cs : w[r].st \in {"deleted", "replaced"} /\ Below(q, r)}

CommittedTree(w, cs) ==
    [q \in {q \in cs : w[q].st # "deleted"} |-> TreeNode(w[q].kind, w[q].disk)]
        @@ [q \in DOMAIN HeadTree \ Removed(w, cs) |-> HeadTree[q]]

CommittedWc(w, cs) ==
    [q \in DOMAIN w \ {q \in cs : w[q].st = "deleted" /\ w[q].disk = NoFile} |->
        IF q \notin cs THEN w[q]
        ELSE IF w[q].st = "deleted"
             THEN WcNode(w[q].kind, "unversioned", FALSE, w[q].disk, NoFile)
        ELSE WcNode(w[q].kind, "normal", FALSE, w[q].disk, w[q].disk)]

TargetRevision(w, cs) == [tree |-> CommittedTree(w, cs), changed |-> cs]

(***************************************************************************)
(* real_main and process_svn_log_entry.                                    *)
(***************************************************************************)
NoEntry == [revision |-> None, url |-> <<>>, failed |-> FALSE]

InitReplay ==
    /\ \E run \in ReplayRuns :
          /\ repos = Repository(run.hist)
          /\ source_base = run.base
          /\ options = [NoOptions EXCEPT !.rev_start = run.start]
    /\ srcLog = {}
    /\ source_url = UrlPlain
    /\ target_log = <<>>
    /\ tgt_nonempty = FALSE
    /\ run_base = 0
    /\ rev_map = EmptyMap
    /\ lookup = <<>>
    /\ NoProps
    /\ wc_pending = {}
    /\ runs = 1
    /\ pc = "replay_start"
    /\ ret = "idle"
    /\ in_try = FALSE
    /\ source_start_rev = None
    /\ source_end_rev = None
    /\ source_rev = None
    /\ source_rev_last = None
    /\ target_rev = None
    /\ target_rev_last = None
    /\ num_entries_proc = 0
    /\ it_log_entries = <<>>
    /\ commit_rev = None
    /\ rev_num = None
    /\ handler = "default"
    /\ bh_count = 0
    /\ bh_enabled = FALSE
    /\ exc = ""
    /\ exc_at = ""
    /\ exit_code = -1
    /\ recovery = <<>>
    /\ reported = None
    /\ replayed = {}
    /\ target_repos = <<>>
    /\ wc = EmptyWc
    /\ log_queue = <<>>
    /\ log_entry = NoEntry
    /\ path_idx = 0
    /\ commit_paths = <<>>
    /\ export_paths = <<>>
    /\ source_ancestors = <<>>
    /\ adds = <<>>
    /\ walk = NoWalk
    /\ svn_first = <<>>
    /\ iter = NoIter


\* The state threaded through a handler, from the variables.
Threaded == [wc |-> wc, export_paths |-> export_paths, adds |-> adds, err |-> ""]

\* for p in top_paths: in_svn test, makedirs, export, svn add (lines 888-897)
ImportDir(W, p) ==
    IF p.kind = "dir" /\ ~Exists(W.wc, p.path) THEN makedirs(W, p.path) ELSE W
ImportPath(W, start_path, start_rev, p) ==
    IF in_svn(W.wc, p.path, FALSE) THEN Fail(W, "InternalError")
    ELSE svn_add(svn_export(ImportDir(W, p), join_path(start_path, p.path), start_rev,
                            p.path, TRUE),
                 p.path, FALSE)

RECURSIVE ImportTop(_, _, _, _, _)
ImportTop(W, start_path, start_rev, top_paths, i) ==
    IF i > Len(top_paths) \/ ~Ok(W) THEN W
    ELSE ImportTop(ImportPath(W, start_path, start_rev, top_paths[i]),
                   start_path, start_rev, top_paths, i + 1)

\* An exception of the initial import: nothing catches it.
ImportFailed(e, w, start_rev) ==
    /\ exc' = e
    /\ exit_code' = 1
    /\ pc' = "replay_done"
    /\ wc' = w
    /\ source_start_rev' = start_rev
    /\ UNCHANGED <<target_repos, rev_map, target_rev, source_rev_last, log_queue,
                   num_entries_proc>>

\* Lines 908-935: the commit of the import, its entry in rev_map and the
\* iterator of the main loop.
ImportCommitted(anc, end_rev, start_rev, W, cs) ==
    IF ~Ok(W) THEN ImportFailed(W.err, W.wc, start_rev)
    ELSE IF CommitFails(W.wc, <<>>, cs)
         THEN ImportFailed("ExternalCommandFailed", W.wc, start_rev)
    ELSE /\ source_start_rev' = start_rev
         /\ num_entries_proc' = 1
         /\ target_repos' = IF cs # {} THEN Append(target_repos, TargetRevision(W.wc, cs))
                            ELSE target_repos
         /\ wc' = IF cs # {} THEN CommittedWc(W.wc, cs) ELSE W.wc
         /\ target_rev' = IF cs # {} THEN HeadRev + 1 ELSE None
         /\ rev_map' = IF cs # {} THEN set_rev_map(rev_map, start_rev, HeadRev + 1)
                       ELSE rev_map
         /\ log_queue' = IF start_rev < end_rev
                         THEN iter_svn_log_entries_ancestors(source_base, start_rev + 1,
                                                             end_rev, anc)
                         ELSE <<>>
         /\ source_rev_last' = start_rev
         /\ exc' = ""
         /\ exit_code' = 0
         /\ pc' = "replay_loop"

ImportExported(anc, end_rev, start_rev, W) ==
    ImportCommitted(anc, end_rev, start_rev, W, CommitSet(W.wc, <<>>))

\* Lines 886-897: the top-level paths of the start revision are exported
\* and added.
ImportAt(anc, end_rev, start_rev, start_path) ==
    ImportExported(anc, end_rev, start_rev,
                   ImportTop(Threaded, start_path, start_rev,
                             ListRemote(start_path, start_rev), 1))

\* Line 886: the initial import reads the path of the eldest ancestor.
StartPath(anc) == IF anc = <<>> THEN source_base ELSE anc[Len(anc)].copyfrom_path

\* Lines 865-876: the first log entry at or after --revision.
ImportFirst(anc, end_rev, it_log_start) ==
    IF it_log_start = <<>> THEN ImportFailed("InternalError", wc, source_start_rev)
    ELSE IF it_log_start[1].failed
         THEN ImportFailed("ExternalCommandFailed", wc, source_start_rev)
    ELSE ImportAt(anc, end_rev, it_log_start[1].revision, StartPath(anc))

\* Line 864: the ancestors of the source URL at its last revision.
ImportFound(end_rev, found) ==
    /\ source_end_rev' = end_rev
    /\ source_ancestors' = found.ancestors
    /\ IF found.err # "" THEN ImportFailed(found.err, wc, source_start_rev)
       ELSE ImportFirst(found.ancestors, end_rev,
                        iter_svn_log_entries_ancestors(source_base, options.rev_start,
                                                       end_rev, found.ancestors))

\* Lines 864-935: the first log entry at or after --revision, the initial
\* import of that revision and its commit, the iterator of the main loop.
ReplayImport ==
    /\ pc = "replay_start"
    /\ ImportFound(Len(repos.log), find_svn_ancestors(source_base, Len(repos.log), <<>>))
    /\ UNCHANGED <<srcLog, source_url, target_log, tgt_nonempty, wc_pending,
                   runs, run_base, options, ret, in_try, source_rev,
                   target_rev_last, it_log_entries, commit_rev, rev_num,
                   handler, bh_count, bh_enabled, exc_at, recovery, reported,
                   replayed, lookup, repos, source_base, log_entry, path_idx,
                   commit_paths, export_paths, adds, walk, svn_first, iter,
                   source_props, target_props>>

\* Lines 939-955 and 612: the next log entry; commit_paths = [], export_paths = [].
ReplayNext ==
    /\ pc = "replay_loop"
    /\ log_queue # <<>>
    /\ log_queue' = Tail(log_queue)
    /\ IF Head(log_queue).failed
       THEN /\ exc' = "ExternalCommandFailed"
            /\ pc' = "replay_except"
            /\ UNCHANGED <<log_entry, source_rev, path_idx, commit_paths, export_paths>>
       ELSE /\ log_entry' = Head(log_queue)
            /\ source_rev' = Head(log_queue).revision
            /\ path_idx' = 1
            /\ commit_paths' = <<>>
            /\ export_paths' = <<>>
            /\ pc' = "replay_paths"
            /\ UNCHANGED exc
    /\ UNCHANGED <<srcLog, source_url, target_log, tgt_nonempty, wc_pending,
                   runs, run_base, options, ret, in_try, rev_map,
                   source_start_rev, source_end_rev, source_rev_last,
                   target_rev, target_rev_last, num_entries_proc,
                   it_log_entries, commit_rev, rev_num, handler, bh_count,
                   bh_enabled, exc_at, exit_code, recovery, reported, replayed,
                   lookup, repos, source_base, target_repos, wc,
                   source_ancestors, adds, walk, svn_first, iter, source_props,
                   target_props>>

\* The changed path the loop of process_svn_log_entry is at, and its offset
\* from the URL the entry was logged under.
CurPath == repos.log[log_entry.revision][path_idx]
CurOffset == Strip(DropFirst(CurPath.path, Len(log_entry.url)))
AtPath(actions) ==
    /\ pc = "replay_paths"
    /\ path_idx <= Len(repos.log[log_entry.revision])
    /\ CurPath.action \in actions
Related == is_child_path(CurPath.path, log_entry.url)

\* The end of one pass of the loop over the changed paths.
PathDone(W) ==
    /\ wc' = W.wc
    /\ export_paths' = W.export_paths
    /\ adds' = W.adds
    /\ commit_paths' = Append(commit_paths, CurOffset)
    /\ IF Ok(W)
       THEN /\ path_idx' = path_idx + 1
            /\ UNCHANGED <<pc, exc>>
       ELSE /\ exc' = W.err
            /\ pc' = "replay_except"
            /\ UNCHANGED path_idx

\* A loop that records the offset of a changed path outside the base.
ProcessUnrelatedRecorded ==
    /\ AtPath(valid_svn_actions \cup OtherActions)
    /\ ~Related
    /\ commit_paths' = Append(commit_paths, CurOffset)
    /\ path_idx' = path_idx + 1
    /\ UNCHANGED <<srcLog, source_url, target_log, tgt_nonempty, wc_pending,
                   runs, run_base, options, pc, ret, in_try, rev_map,
                   source_start_rev, source_end_rev, source_rev,
                   source_rev_last, target_rev, target_rev_last,
                   num_entries_proc, it_log_entries, commit_rev, rev_num,
                   handler, bh_count, bh_enabled, exc, exc_at, exit_code,
                   recovery, reported, replayed, lookup, repos, source_base,
                   target_repos, wc, log_queue, log_entry, export_paths,
                   source_ancestors, adds, walk, svn_first, iter, source_props,
                   target_props>>

\* Lines 616-623: a changed path that is not below the URL of the entry.
ProcessUnrelated ==
    /\ AtPath(valid_svn_actions \cup OtherActions)
    /\ ~Related
    /\ path_idx' = path_idx + 1
    /\ UNCHANGED <<srcLog, source_url, target_log, tgt_nonempty, wc_pending,
                   runs, run_base, options, pc, ret, in_try, rev_map,
                   source_start_rev, source_end_rev, source_rev,
                   source_rev_last, target_rev, target_rev_last,
                   num_entries_proc, it_log_entries, commit_rev, rev_num,
                   handler, bh_count, bh_enabled, exc, exc_at, exit_code,
                   recovery, reported, replayed, lookup, repos, source_base,
                   target_repos, wc, log_queue, log_entry, commit_paths,
                   export_paths, source_ancestors, adds, walk, svn_first, iter,
                   source_props, target_props>>

\* A loop that passes over a changed path with an unknown action.
ProcessUnsupportedIgnored ==
    /\ AtPath(OtherActions)
    /\ Related
    /\ path_idx' = path_idx + 1
    /\ UNCHANGED <<srcLog, source_url, target_log, tgt_nonempty, wc_pending,
                   runs, run_base, options, pc, ret, in_try, rev_map,
                   source_start_rev, source_end_rev, source_rev,
                   source_rev_last, target_rev, target_rev_last,
                   num_entries_proc, it_log_entries, commit_rev, rev_num,
                   handler, bh_count, bh_enabled, exc, exc_at, exit_code,
                   recovery, reported, replayed, lookup, repos, source_base,
                   target_repos, wc, log_queue, log_entry, commit_paths,
                   export_paths, source_ancestors, adds, walk, svn_first, iter,
                   source_props, target_props>>

\* Lines 636-640: an action outside valid_svn_actions raises before the path
\* is appended to commit_paths.
ProcessUnsupported ==
    /\ AtPath(OtherActions)
    /\ Related
    /\ exc' = "UnsupportedSVNAction"
    /\ pc' = "replay_except"
    /\ UNCHANGED <<srcLog, source_url, target_log, tgt_nonempty, wc_pending,
                   runs, run_base, options, ret, in_try, rev_map,
                   source_start_rev, source_end_rev, source_rev,
                   source_rev_last, target_rev, target_rev_last,
                   num_entries_proc, it_log_entries, commit_rev, rev_num,
                   handler, bh_count, bh_enabled, exc_at, exit_code, recovery,
                   reported, replayed, lookup, repos, source_base,
                   target_repos, wc, log_queue, log_entry, path_idx,
                   commit_paths, export_paths, source_ancestors, adds, walk,
                   svn_first, iter, source_props, target_props>>

\* svnclient.update before svnclient.remove, for a directory.
UpdateDir(W, is_dir, path_offset) == IF is_dir THEN svn_update(W, path_offset) ELSE W

\* Lines 651-669: "R" removes the path when it is versioned, then adds it.
Replaced(W, d, path_offset) ==
    IF d.action = "R" /\ path_offset # <<>> /\ in_svn(W.wc, path_offset, FALSE)
    THEN svn_remove(UpdateDir(W, d.kind = "dir", path_offset), path_offset)
    ELSE W

\* Lines 678-689: the offsets of the changed paths below this one with an
\* action in 'ARD'.
SkipPaths ==
    {Strip(DropFirst(d.path, Len(log_entry.url))) :
        d \in {d \in Range(repos.log[log_entry.revision]) :
                  /\ is_child_path(d.path, CurPath.path)
                  /\ d.action \in {"A", "R", "D"}}}

\* Lines 671-690: "A" or "R" with a copy-from.
ProcessAddCopy ==
    /\ AtPath({"A", "R"})
    /\ Related
    /\ CurPath.copyfrom_revision # None
    /\ PathDone(do_svn_add(Replaced(Threaded, CurPath, CurOffset), log_entry.url, CurOffset,
                           source_rev, <<>>, None, CurPath.kind = "dir", SkipPaths, 0))
    /\ UNCHANGED <<srcLog, source_url, target_log, tgt_nonempty, wc_pending,
                   runs, run_base, options, ret, in_try, rev_map,
                   source_start_rev, source_end_rev, source_rev,
                   source_rev_last, target_rev, target_rev_last,
                   num_entries_proc, it_log_entries, commit_rev, rev_num,
                   handler, bh_count, bh_enabled, exc_at, exit_code, recovery,
                   reported, replayed, lookup, repos, source_base,
                   target_repos, log_queue, log_entry, source_ancestors, walk,
                   svn_first, iter, source_props, target_props>>

\* Lines 712-715: svn add --parents unless the path is versioned already.
AddIfUnversioned(W, path_offset) ==
    IF in_svn(W.wc, path_offset, FALSE) THEN W ELSE svn_add(W, path_offset, TRUE)

\* Lines 694-715: mkdir of the parent, export (deferred for a directory), add.
AddPlain(W, src_base, src_rev, path_offset, is_dir) ==
    AddIfUnversioned(ExportOrDefer(MkdirIfMissing(W, ParentPath(path_offset, is_dir)),
                                   is_dir, src_base, src_rev, path_offset),
                     path_offset)

\* Lines 692-717: "A" or "R" without a copy-from.
ProcessAddPlain ==
    /\ AtPath({"A", "R"})
    /\ Related
    /\ CurPath.copyfrom_revision = None
    /\ PathDone(AddPlain(Replaced(Threaded, CurPath, CurOffset), log_entry.url, source_rev,
                         CurOffset, CurPath.kind = "dir"))
    /\ UNCHANGED <<srcLog, source_url, target_log, tgt_nonempty, wc_pending,
                   runs, run_base, options, ret, in_try, rev_map,
                   source_start_rev, source_end_rev, source_rev,
                   source_rev_last, target_rev, target_rev_last,
                   num_entries_proc, it_log_entries, commit_rev, rev_num,
                   handler, bh_count, bh_enabled, exc_at, exit_code, recovery,
                   reported, replayed, lookup, repos, source_base,
                   target_repos, log_queue, log_entry, source_ancestors, walk,
                   svn_first, iter, source_props, target_props>>

\* Lines 719-725: "D".
ProcessDelete ==
    /\ AtPath({"D"})
    /\ Related
    /\ PathDone(svn_remove(UpdateDir(Threaded, CurPath.kind = "dir", CurOffset), CurOffset))
    /\ UNCHANGED <<srcLog, source_url, target_log, tgt_nonempty, wc_pending,
                   runs, run_base, options, ret, in_try, rev_map,
                   source_start_rev, source_end_rev, source_rev,
                   source_rev_last, target_rev, target_rev_last,
                   num_entries_proc, it_log_entries, commit_rev, rev_num,
                   handler, bh_count, bh_enabled, exc_at, exit_code, recovery,
                   reported, replayed, lookup, repos, source_base,
                   target_repos, log_queue, log_entry, source_ancestors, walk,
                   svn_first, iter, source_props, target_props>>

\* Lines 728-736: a modified file is exported, a directory is updated.
Modified(W, src_base, src_rev, path_offset, is_dir) ==
    IF is_dir THEN svn_update(W, path_offset)
    ELSE svn_export(W, join_path(src_base, path_offset), src_rev, path_offset, FALSE)

\* Lines 727-738: "M".
ProcessModify ==
    /\ AtPath({"M"})
    /\ Related
    /\ PathDone(Modified(Threaded, log_entry.url, source_rev, CurOffset,
                         CurPath.kind = "dir"))
    /\ UNCHANGED <<srcLog, source_url, target_log, tgt_nonempty, wc_pending,
                   runs, run_base, options, ret, in_try, rev_map,
                   source_start_rev, source_end_rev, source_rev,
                   source_rev_last, target_rev, target_rev_last,
                   num_entries_proc, it_log_entries, commit_rev, rev_num,
                   handler, bh_count, bh_enabled, exc_at, exit_code, recovery,
                   reported, replayed, lookup, repos, source_base,
                   target_repos, log_queue, log_entry, source_ancestors, walk,
                   svn_first, iter, source_props, target_props>>

\* A process_svn_log_entry that returns without its deferred exports.
ExportNone(W, i) == W

\* Lines 745-747: the deferred exports of the directories in export_paths.
RECURSIVE ExportAll(_, _)
ExportAll(W, i) ==
    IF i > Len(W.export_paths) THEN W
    ELSE ExportAll(svn_export(W, join_path(log_entry.url, W.export_paths[i]), source_rev,
                              W.export_paths[i], TRUE), i + 1)

ExportDone(W) ==
    /\ wc' = W.wc
    /\ IF Ok(W) THEN pc' = "replay_commit" /\ UNCHANGED exc
       ELSE pc' = "replay_except" /\ exc' = W.err

ExportDeferred ==
    /\ pc = "replay_paths"
    /\ path_idx > Len(repos.log[log_entry.revision])
    /\ ExportDone(ExportAll(Threaded, 1))
    /\ UNCHANGED <<srcLog, source_url, target_log, tgt_nonempty, wc_pending,
                   runs, run_base, options, ret, in_try, rev_map,
                   source_start_rev, source_end_rev, source_rev,
                   source_rev_last, target_rev, target_rev_last,
                   num_entries_proc, it_log_entries, commit_rev, rev_num,
                   handler, bh_count, bh_enabled, exc_at, exit_code, recovery,
                   reported, replayed, lookup, repos, source_base,
                   target_repos, log_queue, log_entry, path_idx, commit_paths,
                   export_paths, source_ancestors, adds, walk, svn_first, iter,
                   source_props, target_props>>

\* commit_from_svn_log_entry: commit_paths are passed when there are any; a
\* commit that changes nothing prints nothing and yields no target revision.
Committed(cs) ==
    IF CommitFails(wc, commit_paths, cs)
    THEN /\ exc' = "ExternalCommandFailed"
         /\ pc' = "replay_except"
         /\ UNCHANGED <<wc, target_repos, target_rev, rev_map, source_rev_last>>
    ELSE /\ source_rev_last' = source_rev
         /\ pc' = "replay_loop"
         /\ UNCHANGED exc
         /\ IF cs = {}
            THEN /\ target_rev' = None
                 /\ UNCHANGED <<wc, target_repos, rev_map>>
            ELSE /\ target_rev' = HeadRev + 1
                 /\ target_repos' = Append(target_repos, TargetRevision(wc, cs))
                 /\ wc' = CommittedWc(wc, cs)
                 /\ rev_map' = set_rev_map(rev_map, source_rev, HeadRev + 1)

\* Lines 957-966 with commit_from_svn_log_entry.
ReplayCommit ==
    /\ pc = "replay_commit"
    /\ num_entries_proc' = num_entries_proc + 1
    /\ Committed(CommitSet(wc, commit_paths))
    /\ UNCHANGED <<srcLog, source_url, target_log, tgt_nonempty, wc_pending,
                   runs, run_base, options, ret, in_try, source_start_rev,
                   source_end_rev, source_rev, target_rev_last, it_log_entries,
                   commit_rev, rev_num, handler, bh_count, bh_enabled, exc_at,
                   exit_code, recovery, reported, replayed, lookup, repos,
                   source_base, log_queue, log_entry, path_idx, commit_paths,
                   export_paths, source_ancestors, adds, walk, svn_first, iter,
                   source_props, target_props>>

\* Lines 985-992: svn cleanup and full_svn_revert bring the working copy
\* back to HEAD.
ReplayExcept ==
    /\ pc = "replay_except"
    /\ exit_code' = 1
    /\ recovery' = <<"cleanup", "status">> \o full_svn_revert
    /\ wc' = WcOf(HeadTree)
    /\ pc' = "replay_done"
    /\ UNCHANGED <<srcLog, source_url, target_log, tgt_nonempty, wc_pending,
                   runs, run_base, options, ret, in_try, rev_map,
                   source_start_rev, source_end_rev, source_rev,
                   source_rev_last, target_rev, target_rev_last,
                   num_entries_proc, it_log_entries, commit_rev, rev_num,
                   handler, bh_count, bh_enabled, exc, exc_at, reported,
                   replayed, lookup, repos, source_base, target_repos,
                   log_queue, log_entry, path_idx, commit_paths, export_paths,
                   source_ancestors, adds, walk, svn_first, iter, source_props,
                   target_props>>

\* Lines 973-996: the iterator is exhausted.
ReplayFinish ==
    /\ pc = "replay_loop"
    /\ log_queue = <<>>
    /\ reported' = source_rev_last
    /\ pc' = "replay_done"
    /\ UNCHANGED <<srcLog, source_url, target_log, tgt_nonempty, wc_pending,
                   runs, run_base, options, ret, in_try, rev_map,
                   source_start_rev, source_end_rev, source_rev,
                   source_rev_last, target_rev, target_rev_last,
                   num_entries_proc, it_log_entries, commit_rev, rev_num,
                   handler, bh_count, bh_enabled, exc, exc_at, exit_code,
                   recovery, replayed, lookup, repos, source_base,
                   target_repos, wc, log_queue, log_entry, path_idx,
                   commit_paths, export_paths, source_ancestors, adds, walk,
                   svn_first, iter, source_props, target_props>>

NextReplay ==
    \/ ReplayImport
    \/ ReplayNext
    \/ ProcessUnrelated
    \/ ProcessUnsupported
    \/ ProcessAddCopy
    \/ ProcessAddPlain
    \/ ProcessDelete
    \/ ProcessModify
    \/ ExportDeferred
    \/ ReplayCommit
    \/ ReplayExcept
    \/ ReplayFinish

SpecReplay == InitReplay /\ [][NextReplay]_vars

(***************************************************************************)
(* SpecRevMap: get_rev_map on an arbitrary rev map.  The map holds target   *)
(* revisions for some of the source revisions; the queries run from 0 to    *)
(* one past the last source revision.                                      *)
(***************************************************************************)
RevMaps == UNION {[K -> SrcRevs] : K \in SUBSET SrcRevs}

InitRevMap ==
    /\ srcLog = SrcRevs
    /\ source_url = UrlPlain
    /\ target_log = <<>>
    /\ tgt_nonempty = FALSE
    /\ run_base = 0
    /\ rev_map \in RevMaps
    /\ lookup = <<>>
    /\ NoProps
    /\ IdleRun

\* get_rev_map(source_rev, prefix), lines 392-404; the result is kept with
\* the query.
GetRevMap(s) ==
    /\ pc = "idle"
    /\ lookup' = <<s, get_rev_map(rev_map, s)>>
    /\ UNCHANGED <<srcLog, source_url, target_log, tgt_nonempty, wc_pending,
                   runs, run_base, options, pc, ret, in_try, rev_map,
                   source_start_rev, source_end_rev, source_rev,
                   source_rev_last, target_rev, target_rev_last,
                   num_entries_proc, it_log_entries, commit_rev, rev_num,
                   handler, bh_count, bh_enabled, exc, exc_at, exit_code,
                   recovery, reported, replayed, repos, source_base,
                   target_repos, wc, log_queue, log_entry, path_idx,
                   commit_paths, export_paths, source_ancestors, adds, walk,
                   svn_first, iter, source_props, target_props>>

NextRevMap == \E s \in 0..(MaxSrcRev + 1) : GetRevMap(s)

SpecRevMap == InitRevMap /\ [][NextRevMap]_vars

(***************************************************************************)
(* SpecWalk: find_svn_ancestors, one pass of its while loop per step, on    *)
(* the source histories of the replay model.  The walk is started for any   *)
(* path and revision of the repository, with and without a stop_base_path   *)
(* (<<>> stands for None); each behaviour holds one call.                   *)
(***************************************************************************)
WalkHistories ==
    { HistRenameOnBranch, HistBaseRenamed, HistBaseRenamedTwice, HistCopyInBase,
      HistCopyFromOutside, HistDirFromOutside, HistDirCopy, HistReplace, HistBranch,
      HistUnsupported, HistUnsupportedBelowCopy, HistNameRecurs }

\* The paths the repository holds in some revision, and its directories.
SourcePaths == UNION {DOMAIN repos.tree[r] : r \in 1..Len(repos.tree)}
SourceDirs == {p \in SourcePaths : \E r \in 1..Len(repos.tree) : p \in DOMAIN repos.tree[r] /\ repos.tree[r][p].kind = "dir"}
StopBasePaths == {<<>>} \cup {p \in SourceDirs : p # <<>>}

\* What the source repository answers to get_first_svn_log_entry(path, 1, rev):
\* the outcome of svn log --stop-on-copy --limit 1 and, of the changed paths
\* of the entry, those at or above the path, deepest first.
WithMatches(path, first) ==
    [ok |-> first.ok, revs |-> first.revs,
     matches |-> IF first.ok /\ first.revs # <<>> THEN Matches(first.revs[1], path) ELSE <<>>]
FirstEntry(path, rev) == WithMatches(path, run_svn_log(path, 1, rev, 1, TRUE))
FirstEntries == [q \in SourcePaths \X (1..Len(repos.log)) |-> FirstEntry(q[1], q[2])]

\* svn log fails for a path the repository never held.
get_first_svn_log_entry(path, rev) ==
    IF <<path, rev>> \in DOMAIN svn_first THEN svn_first[<<path, rev>>]
    ELSE [ok |-> FALSE, revs |-> <<>>, matches |-> <<>>]

\* Everything but the answers of svn log.
WalkRest ==
    /\ \E hist \in WalkHistories : repos = Repository(hist)
    /\ source_base = <<>>
    /\ options = NoOptions
    /\ srcLog = {}
    /\ source_url = UrlPlain
    /\ target_log = <<>>
    /\ tgt_nonempty = FALSE
    /\ run_base = 0
    /\ rev_map = EmptyMap
    /\ lookup = <<>>
    /\ NoProps
    /\ wc_pending = {}
    /\ runs = 0
    /\ pc = "walk_idle"
    /\ ret = "idle"
    /\ in_try = FALSE
    /\ source_start_rev = None
    /\ source_end_rev = None
    /\ source_rev = None
    /\ source_rev_last = None
    /\ target_rev = None
    /\ target_rev_last = None
    /\ num_entries_proc = 0
    /\ it_log_entries = <<>>
    /\ commit_rev = None
    /\ rev_num = None
    /\ handler = "default"
    /\ bh_count = 0
    /\ bh_enabled = FALSE
    /\ exc = ""
    /\ exc_at = ""
    /\ exit_code = -1
    /\ recovery = <<>>
    /\ reported = None
    /\ replayed = {}
    /\ target_repos = <<>>
    /\ wc = <<>>
    /\ log_queue = <<>>
    /\ log_entry = NoEntry
    /\ path_idx = 0
    /\ commit_paths = <<>>
    /\ export_paths = <<>>
    /\ source_ancestors = <<>>
    /\ adds = <<>>
    /\ walk = NoWalk
    /\ iter = NoIter

InitWalk == WalkRest /\ svn_first = FirstEntries

\* svnclient.py lines 228-229 and 99-143: run_svn_log returns what
\* parse_svn_log_xml finds in the output of svn, which is the empty list for a
\* log document without logentry.  Here one query for an existing path is
\* answered with such a document.
EmptyLog == [ok |-> TRUE, revs |-> <<>>, matches |-> <<>>]
InitWalkEmpty ==
    /\ WalkRest
    /\ \E q \in SourcePaths \X (1..Len(repos.log)) :
          /\ FirstEntries[q].ok
          /\ svn_first = [FirstEntries EXCEPT ![q] = EmptyLog]

\* Lines 59-64.
WalkStart(start_path, start_rev, stop_base_path) ==
    /\ pc = "walk_idle"
    /\ walk' = [start_path |-> start_path, start_rev |-> start_rev,
                stop_base_path |-> stop_base_path,
                cur_path |-> start_path, cur_rev |-> start_rev,
                first_iter_done |-> FALSE, done |-> FALSE, no_ancestry |-> FALSE,
                ancestors |-> <<>>]
    /\ exc' = ""
    /\ pc' = "walk_loop"
    /\ UNCHANGED <<srcLog, source_url, target_log, tgt_nonempty, wc_pending,
                   runs, run_base, options, ret, in_try, rev_map,
                   source_start_rev, source_end_rev, source_rev,
                   source_rev_last, target_rev, target_rev_last,
                   num_entries_proc, it_log_entries, commit_rev, rev_num,
                   handler, bh_count, bh_enabled, exc_at, exit_code, recovery,
                   reported, replayed, lookup, repos, source_base,
                   target_repos, wc, log_queue, log_entry, path_idx,
                   commit_paths, export_paths, source_ancestors, adds,
                   svn_first, iter, source_props, target_props>>

\* Lines 124-134: the copy is recorded and followed.
WalkFollow(w, rev, d, from) ==
    [w EXCEPT !.ancestors = Append(@, Ancestor(w.cur_path, rev, from, d.copyfrom_revision)),
              !.cur_path = from,
              !.cur_rev = d.copyfrom_revision]

\* Lines 107-134: a delete, or an add or replace without copy-from, ends the
\* walk; an add or replace with copy-from is followed.
WalkChange(w, rev, d) ==
    IF d.action = "D" \/ d.copyfrom_revision = None
    THEN [w EXCEPT !.done = TRUE, !.no_ancestry = @ \/ w.stop_base_path # <<>>]
    ELSE WalkFollow(w, rev, d, StrReplace(w.cur_path, d.path, d.copyfrom_path))

\* Lines 96-134: the for loop passes over the matches with action "M"; when
\* every match is an "M" it ends without a break and nothing has changed.
WalkAction(w, rev, matches, k) == IF k = 0 THEN w ELSE WalkChange(w, rev, matches[k])

\* Lines 81-95.
WalkMatches(w, rev, matches) ==
    IF matches = <<>> THEN [w EXCEPT !.done = TRUE]
    ELSE WalkAction(w, rev, matches, FirstAction(matches, 1))

\* A walk that stops at the first path it reaches after a copy, wherever it lies.
WalkEntryAnyBase(w, rev, matches) ==
    IF w.stop_base_path # <<>> /\ w.first_iter_done
    THEN [w EXCEPT !.done = TRUE]
    ELSE WalkMatches([w EXCEPT !.first_iter_done = TRUE], rev, matches)

\* Lines 73-79.
WalkEntry(w, rev, matches) ==
    IF w.stop_base_path # <<>> /\ w.first_iter_done /\ is_child_path(w.cur_path, w.stop_base_path)
    THEN [w EXCEPT !.done = TRUE]
    ELSE WalkMatches([w EXCEPT !.first_iter_done = TRUE], rev, matches)

\* Lines 65-134 with get_first_svn_log_entry: one pass of the while loop.  A
\* failing svn log raises ExternalCommandFailed, an empty one EmptySVNLog.
WalkRaises(w, matches) ==
    /\ ~(w.stop_base_path # <<>> /\ w.first_iter_done /\ is_child_path(w.cur_path, w.stop_base_path))
    /\ matches # <<>>
    /\ Unsupported(matches, FirstAction(matches, 1))

WalkPass(first) ==
    IF ~first.ok \/ first.revs = <<>>
    THEN /\ exc' = IF ~first.ok THEN "ExternalCommandFailed" ELSE "EmptySVNLog"
         /\ pc' = "walk_raised"
         /\ UNCHANGED walk
    ELSE IF WalkRaises(walk, first.matches)
    THEN /\ exc' = "UnsupportedSVNAction"
         /\ pc' = "walk_raised"
         /\ UNCHANGED walk
    ELSE /\ walk' = WalkEntry(walk, first.revs[1], first.matches)
         /\ UNCHANGED <<exc, pc>>

WalkIterate ==
    /\ pc = "walk_loop"
    /\ ~walk.done
    /\ WalkPass(get_first_svn_log_entry(walk.cur_path, walk.cur_rev))
    /\ UNCHANGED <<srcLog, source_url, target_log, tgt_nonempty, wc_pending,
                   runs, run_base, options, ret, in_try, rev_map,
                   source_start_rev, source_end_rev, source_rev,
                   source_rev_last, target_rev, target_rev_last,
                   num_entries_proc, it_log_entries, commit_rev, rev_num,
                   handler, bh_count, bh_enabled, exc_at, exit_code, recovery,
                   reported, replayed, lookup, repos, source_base,
                   target_repos, wc, log_queue, log_entry, path_idx,
                   commit_paths, export_paths, source_ancestors, adds,
                   svn_first, iter, source_props, target_props>>

\* A return that hands back the hops whatever ended the walk.
WalkReturnHops ==
    /\ pc = "walk_loop"
    /\ walk.done
    /\ pc' = "walk_done"
    /\ UNCHANGED <<srcLog, source_url, target_log, tgt_nonempty, wc_pending,
                   runs, run_base, options, ret, in_try, rev_map,
                   source_start_rev, source_end_rev, source_rev,
                   source_rev_last, target_rev, target_rev_last,
                   num_entries_proc, it_log_entries, commit_rev, rev_num,
                   handler, bh_count, bh_enabled, exc, exc_at, exit_code,
                   recovery, reported, replayed, lookup, repos, source_base,
                   target_repos, wc, log_queue, log_entry, path_idx,
                   commit_paths, export_paths, source_ancestors, adds, walk,
                   svn_first, iter, source_props, target_props>>

\* Lines 135-156.
WalkReturn ==
    /\ pc = "walk_loop"
    /\ walk.done
    /\ walk' = [walk EXCEPT !.ancestors = IF walk.stop_base_path # <<>> /\ walk.no_ancestry
                                          THEN <<>> ELSE @]
    /\ pc' = "walk_done"
    /\ UNCHANGED <<srcLog, source_url, target_log, tgt_nonempty, wc_pending,
                   runs, run_base, options, ret, in_try, rev_map,
                   source_start_rev, source_end_rev, source_rev,
                   source_rev_last, target_rev, target_rev_last,
                   num_entries_proc, it_log_entries, commit_rev, rev_num,
                   handler, bh_count, bh_enabled, exc, exc_at, exit_code,
                   recovery, reported, replayed, lookup, repos, source_base,
                   target_repos, wc, log_queue, log_entry, path_idx,
                   commit_paths, export_paths, source_ancestors, adds,
                   svn_first, iter, source_props, target_props>>

NextWalk ==
    \/ \E start_path \in SourcePaths, start_rev \in 1..Len(repos.log), stop_base_path \in StopBasePaths :
          WalkStart(start_path, start_rev, stop_base_path)
    \/ WalkIterate
    \/ WalkReturn

SpecWalk == InitWalk /\ [][NextWalk]_vars

SpecWalkEmpty == InitWalkEmpty /\ [][NextWalk]_vars

\* The loop goes on while it can, and the function returns when the loop ends.
SpecWalkLive == SpecWalk /\ WF_vars(WalkIterate) /\ WF_vars(WalkReturn)


(***************************************************************************)
(* SpecIter: svnclient.iter_svn_log_entries, one pass of its while loop per *)
(* step, over a source path followed through its renames.  srcLog holds the *)
(* revisions that changed the path or one of its earlier names, and         *)
(* source_ancestors the renames, the youngest first, as find_svn_ancestors  *)
(* returns them.  The repository has MaxIterRev revisions.                  *)
(***************************************************************************)
MaxIterRev == 36

IterUrl == <<"t">>
IterUrlOld == <<"t0">>
IterUrlOldest == <<"t00">>

\* The revisions the path came into being at, and those it was renamed at.
IterCreations == {1, 3, 15}
IterRenames == {16, 26, 36}

\* The changes of a path created in revision c: every revision, every
\* thirteenth one, the first and the last one, or none after the creation.
IterLogsOf(c) ==
    { c..MaxIterRev,
      {c} \cup {r \in (c + 1)..MaxIterRev : r % 13 = 0},
      {c, MaxIterRev},
      {c} }
IterLogs == UNION {IterLogsOf(c) : c \in IterCreations}

LastBefore(log, r) == MaxOf({x \in log : x < r})

\* The renames of a path with the changes log: none, one, or two.  A rename
\* copies from the revision before it, or from the last change before it.
CopyFromRevs(log, r) ==
    {LastBefore(log, r)} \cup {k \in {r - 1} : \A x \in log : ~(k < x /\ x < r)}
RenameRevsOf(log) == {r \in log \cap IterRenames : r > MinOf(log)}
IterChains(log) ==
    {<<>>}
    \cup {<<Ancestor(IterUrl, r, IterUrlOld, k)>> :
             <<r, k>> \in {p \in RenameRevsOf(log) \X (1..MaxIterRev) : p[2] \in CopyFromRevs(log, p[1])}}
    \cup {<<Ancestor(IterUrl, p[2], IterUrlOld, p[2] - 1),
            Ancestor(IterUrlOld, p[1], IterUrlOldest, LastBefore(log, p[1]))>> :
             p \in {q \in RenameRevsOf(log) \X RenameRevsOf(log) :
                       q[1] < q[2] /\ \A x \in log : ~(q[2] - 1 < x /\ x < q[2])}}

\* The revisions a name of the path exists in: from its creation, or the
\* rename that gave the name, up to the rename that took it away.
NameBorn(anc, log, url) ==
    IF \E i \in 1..Len(anc) : anc[i].path = url
    THEN anc[CHOOSE i \in 1..Len(anc) : anc[i].path = url].revision
    ELSE MinOf(log)
NameGone(anc, url) ==
    IF \E i \in 1..Len(anc) : anc[i].copyfrom_path = url
    THEN anc[CHOOSE i \in 1..Len(anc) : anc[i].copyfrom_path = url].revision
    ELSE MaxIterRev + 1
NameExists(anc, log, url, rev) ==
    /\ url \in {IterUrl} \cup {anc[i].copyfrom_path : i \in 1..Len(anc)}
    /\ NameBorn(anc, log, url) <= rev
    /\ rev < NameGone(anc, url)

\* The revisions of S from rev_start to rev_end: ascending, or descending when
\* rev_start is the greater one.
RevsInOrder(S, ascending) ==
    [i \in 1..Cardinality(S) |->
        CHOOSE x \in S : Cardinality({y \in S : IF ascending THEN y < x ELSE y > x}) = i - 1]

\* svnclient.run_svn_log without --stop-on-copy: the log of url@peg follows
\* the renames back, so it holds every change of the path up to the peg.
run_svn_log_chunk(anc, log, url, rev_start, rev_end, limit) ==
    IF ~NameExists(anc, log, url, Max2(rev_start, rev_end)) THEN [ok |-> FALSE, revs |-> <<>>]
    ELSE [ok |-> TRUE,
          revs |-> FirstN(RevsInOrder(Between(log, Min2(rev_start, rev_end),
                                              Max2(rev_start, rev_end)),
                                      rev_start <= rev_end),
                          limit)]

\* Lines 361 and 376-379 compare the seconds a request took with
\* log_duration_threshold and with twice that.
log_duration_threshold == 10
IterDurations == {9, 10, 20, 21}

\* A chunk length that is doubled without the cap.
AdaptUncapped(chunk_length, duration) ==
    IF duration < log_duration_threshold THEN chunk_length * 2
    ELSE IF duration > log_duration_threshold * 2
         THEN Max2(log_min_chunk_length, chunk_length \div 2)
         ELSE chunk_length

\* Lines 376-379.
AdaptChunkLength(chunk_length, duration) ==
    IF duration < log_duration_threshold
    THEN Min2(log_max_chunk_length, chunk_length * 2)
    ELSE IF duration > log_duration_threshold * 2
         THEN Max2(log_min_chunk_length, chunk_length \div 2)
         ELSE chunk_length

\* An empty chunk that leaves cur_rev where it is.
AfterEmptyStays(cur_rev, stop_rev) == cur_rev

\* Line 374.
AfterEmptyChunk(cur_rev, stop_rev) == stop_rev + 1

\* Lines 363-369: the entries are yielded up to the first one past last_rev;
\* e is that one, or the last entry.
YieldCount(revs, last_rev) ==
    Cardinality({i \in 1..Len(revs) : \A j \in 1..i : revs[j] <= last_rev})
LoopEntry(revs, n) == IF n < Len(revs) THEN revs[n + 1] ELSE revs[Len(revs)]

\* The variables of the other specifications, at rest.
IterRest ==
    /\ repos = [log |-> <<>>, tree |-> <<>>]
    /\ source_base = <<>>
    /\ options = NoOptions
    /\ source_url = UrlPlain
    /\ target_log = <<>>
    /\ tgt_nonempty = FALSE
    /\ run_base = 0
    /\ rev_map = EmptyMap
    /\ lookup = <<>>
    /\ wc_pending = {}
    /\ runs = 0
    /\ ret = "idle"
    /\ in_try = FALSE
    /\ source_start_rev = None
    /\ source_end_rev = None
    /\ source_rev = None
    /\ source_rev_last = None
    /\ target_rev = None
    /\ target_rev_last = None
    /\ num_entries_proc = 0
    /\ it_log_entries = <<>>
    /\ commit_rev = None
    /\ rev_num = None
    /\ handler = "default"
    /\ bh_count = 0
    /\ bh_enabled = FALSE
    /\ exc = ""
    /\ exc_at = ""
    /\ exit_code = -1
    /\ recovery = <<>>
    /\ reported = None
    /\ replayed = {}
    /\ target_repos = <<>>
    /\ wc = <<>>
    /\ log_queue = <<>>
    /\ log_entry = NoEntry
    /\ path_idx = 0
    /\ commit_paths = <<>>
    /\ export_paths = <<>>
    /\ adds = <<>>
    /\ walk = NoWalk
    /\ svn_first = <<>>

InitIter ==
    /\ srcLog \in IterLogs
    /\ source_ancestors \in IterChains(srcLog)
    /\ pc = "iter_idle"
    /\ iter = NoIter
    /\ NoProps
    /\ IterRest

\* Lines 322-340: the locals before the first pass.
IterLocals(first_rev_arg, last_rev, start_rev, s) ==
    [svn_url |-> IterUrl, first_rev |-> first_rev_arg, last_rev |-> last_rev,
     start_rev |-> start_rev,
     cur_url |-> s.url, cur_rev |-> s.rev, cur_anc_idx |-> s.idx, cur_anc_end_rev |-> s.end,
     chunk_length |-> log_min_chunk_length, stop_rev |-> None, duration |-> None,
     entries |-> <<>>, yielded |-> <<>>]

\* Lines 317-320: with first_rev 1 the first log entry of the URL is looked
\* up, and a later revision of it replaces first_rev.
IterFirstRev(first_rev_arg, start_log) ==
    IF first_rev_arg = 1 /\ start_log.revs[1] > first_rev_arg
    THEN start_log.revs[1] ELSE first_rev_arg

IterEnter(first_rev_arg, last_rev, start_rev) ==
    /\ iter' = IterLocals(first_rev_arg, last_rev, start_rev,
                          PreSegment(IterUrl, source_ancestors, start_rev,
                                     SegmentHits(source_ancestors, start_rev)))
    /\ pc' = "iter_loop"
    /\ exc' = ""

\* Lines 312-340.  get_first_svn_log_entry raises ExternalCommandFailed when
\* svn log fails and EmptySVNLog when it finds no entry.
IterLookup(first_rev_arg, last_rev, start_log) ==
    IF first_rev_arg = 1 /\ (~start_log.ok \/ start_log.revs = <<>>)
    THEN /\ exc' = IF ~start_log.ok THEN "ExternalCommandFailed" ELSE "EmptySVNLog"
         /\ pc' = "iter_raised"
         /\ iter' = [NoIter EXCEPT !.svn_url = IterUrl, !.first_rev = first_rev_arg,
                                   !.last_rev = last_rev]
    ELSE IterEnter(first_rev_arg, last_rev, IterFirstRev(first_rev_arg, start_log))

IterOpen(first_rev_arg, last_rev) ==
    /\ pc = "iter_idle"
    /\ \E start_log \in {run_svn_log_chunk(source_ancestors, srcLog, IterUrl,
                                           first_rev_arg, last_rev, 1)} :
          IterLookup(first_rev_arg, last_rev, start_log)
    /\ UNCHANGED <<srcLog, source_url, target_log, tgt_nonempty, wc_pending,
                   runs, run_base, options, ret, in_try, rev_map,
                   source_start_rev, source_end_rev, source_rev,
                   source_rev_last, target_rev, target_rev_last,
                   num_entries_proc, it_log_entries, commit_rev, rev_num,
                   handler, bh_count, bh_enabled, exc_at, exit_code, recovery,
                   reported, replayed, lookup, repos, source_base,
                   target_repos, wc, log_queue, log_entry, path_idx,
                   commit_paths, export_paths, source_ancestors, adds, walk,
                   svn_first, source_props, target_props>>

\* Lines 362-379: the entries are yielded; the loop ends at an entry that
\* reaches last_rev, and goes on behind the last entry, or behind stop_rev
\* when there was none.
IterYield(it, s, stop_rev, duration, revs, n) ==
    /\ iter' = [it EXCEPT !.cur_url = s.url, !.cur_anc_idx = s.idx, !.cur_anc_end_rev = s.end,
                          !.stop_rev = stop_rev, !.duration = duration, !.entries = revs,
                          !.yielded = @ \o Yielded(SubSeq(revs, 1, n), s.url),
                          !.cur_rev = IF revs = <<>> THEN AfterEmptyChunk(s.rev, stop_rev)
                                      ELSE IF LoopEntry(revs, n) >= it.last_rev THEN s.rev
                                      ELSE LoopEntry(revs, n) + 1,
                          !.chunk_length = IF revs # <<>> /\ LoopEntry(revs, n) >= it.last_rev
                                           THEN @ ELSE AdaptChunkLength(@, duration)]
    /\ pc' = IF revs # <<>> /\ LoopEntry(revs, n) >= it.last_rev THEN "iter_done" ELSE "iter_loop"
    /\ UNCHANGED exc

\* Lines 359-361: a failing svn log raises ExternalCommandFailed.
IterFetch(it, s, stop_rev, duration, entries) ==
    IF ~entries.ok
    THEN /\ iter' = [it EXCEPT !.cur_url = s.url, !.cur_rev = s.rev, !.cur_anc_idx = s.idx,
                               !.cur_anc_end_rev = s.end, !.stop_rev = stop_rev,
                               !.entries = <<>>]
         /\ exc' = "ExternalCommandFailed"
         /\ pc' = "iter_raised"
    ELSE \E n \in {YieldCount(entries.revs, it.last_rev)} :
            IterYield(it, s, stop_rev, duration, entries.revs, n)

\* Lines 341-379: one pass of the while loop.  Lines 343-354 give the part of
\* the ancestry, lines 357-358 the end of the window, lines 359-360 the chunk.
IterPass(duration) ==
    /\ pc = "iter_loop"
    /\ iter.cur_rev <= iter.last_rev
    /\ \E s \in {NextSegment(source_ancestors, iter.cur_url, iter.cur_rev,
                             iter.cur_anc_idx, iter.cur_anc_end_rev)} :
       \E stop_rev \in {StopRev(iter.last_rev, s, iter.chunk_length)} :
       \E entries \in {run_svn_log_chunk(source_ancestors, srcLog, s.url, s.rev,
                                         stop_rev, iter.chunk_length)} :
          IterFetch(iter, s, stop_rev, duration, entries)
    /\ UNCHANGED <<srcLog, source_url, target_log, tgt_nonempty, wc_pending,
                   runs, run_base, options, ret, in_try, rev_map,
                   source_start_rev, source_end_rev, source_rev,
                   source_rev_last, target_rev, target_rev_last,
                   num_entries_proc, it_log_entries, commit_rev, rev_num,
                   handler, bh_count, bh_enabled, exc_at, exit_code, recovery,
                   reported, replayed, lookup, repos, source_base,
                   target_repos, wc, log_queue, log_entry, path_idx,
                   commit_paths, export_paths, source_ancestors, adds, walk,
                   svn_first, source_props, target_props>>

\* Line 341: the loop ends when cur_rev has passed last_rev.
IterClose ==
    /\ pc = "iter_loop"
    /\ iter.cur_rev > iter.last_rev
    /\ pc' = "iter_done"
    /\ UNCHANGED <<srcLog, source_url, target_log, tgt_nonempty, wc_pending,
                   runs, run_base, options, ret, in_try, rev_map,
                   source_start_rev, source_end_rev, source_rev,
                   source_rev_last, target_rev, target_rev_last,
                   num_entries_proc, it_log_entries, commit_rev, rev_num,
                   handler, bh_count, bh_enabled, exc, exc_at, exit_code,
                   recovery, reported, replayed, lookup, repos, source_base,
                   target_repos, wc, log_queue, log_entry, path_idx,
                   commit_paths, export_paths, source_ancestors, adds, walk,
                   svn_first, iter, source_props, target_props>>

IterFirstRevs == {1, 2, 6, 16}
IterLastRevs == {10, 30, MaxIterRev}

NextIter ==
    \/ \E first_rev \in IterFirstRevs, last_rev \in IterLastRevs : IterOpen(first_rev, last_rev)
    \/ \E duration \in IterDurations : IterPass(duration)
    \/ IterClose

SpecIter == InitIter /\ [][NextIter]_vars

\* Every request is answered in the end, and the loop goes on while it can.
SpecIterLive == SpecIter /\ WF_vars(\E duration \in IterDurations : IterPass(duration)) /\ WF_vars(IterClose)

(***************************************************************************)
(* SpecChunk: the chunk length of the iterator under any sequence of        *)
(* request durations (lines 340 and 376-379).                               *)
(***************************************************************************)
InitChunk ==
    /\ srcLog = {}
    /\ source_ancestors = <<>>
    /\ pc = "chunk_adapt"
    /\ iter = [NoIter EXCEPT !.chunk_length = log_min_chunk_length]
    /\ NoProps
    /\ IterRest

AdaptChunk(duration) ==
    /\ pc = "chunk_adapt"
    /\ iter' = [iter EXCEPT !.duration = duration,
                            !.chunk_length = AdaptChunkLength(@, duration)]
    /\ UNCHANGED <<srcLog, source_url, target_log, tgt_nonempty, wc_pending,
                   runs, run_base, options, pc, ret, in_try, rev_map,
                   source_start_rev, source_end_rev, source_rev,
                   source_rev_last, target_rev, target_rev_last,
                   num_entries_proc, it_log_entries, commit_rev, rev_num,
                   handler, bh_count, bh_enabled, exc, exc_at, exit_code,
                   recovery, reported, replayed, lookup, repos, source_base,
                   target_repos, wc, log_queue, log_entry, path_idx,
                   commit_paths, export_paths, source_ancestors, adds, walk,
                   svn_first, source_props, target_props>>

NextChunk == \E duration \in IterDurations : AdaptChunk(duration)

SpecChunk == InitChunk /\ [][NextChunk]_vars

(***************************************************************************)
(* SpecStart: the start of a run that does not resume (real_main, lines     *)
(* 862-877) on top of the iterator: the first entry the iterator yields is  *)
(* where the initial import is taken.                                       *)
(***************************************************************************)
\* Lines 866-877: the for loop takes the first entry and leaves the iterator;
\* an iterator that ends without an entry raises InternalError.
StartLog ==
    /\ pc \in {"iter_loop", "iter_done"}
    /\ source_start_rev = None
    /\ iter.yielded # <<>> \/ pc = "iter_done"
    /\ IF iter.yielded # <<>>
       THEN /\ source_start_rev' = iter.yielded[1].revision
            /\ pc' = "start_found"
            /\ UNCHANGED exc
       ELSE /\ exc' = "InternalError"
            /\ pc' = "start_failed"
            /\ UNCHANGED source_start_rev
    /\ UNCHANGED <<srcLog, source_url, target_log, tgt_nonempty, wc_pending,
                   runs, run_base, options, ret, in_try, rev_map,
                   source_end_rev, source_rev, source_rev_last, target_rev,
                   target_rev_last, num_entries_proc, it_log_entries,
                   commit_rev, rev_num, handler, bh_count, bh_enabled, exc_at,
                   exit_code, recovery, reported, replayed, lookup, repos,
                   source_base, target_repos, wc, log_queue, log_entry,
                   path_idx, commit_paths, export_paths, source_ancestors,
                   adds, walk, svn_first, iter, source_props, target_props>>

NextStart ==
    \/ \E first_rev \in IterFirstRevs, last_rev \in IterLastRevs : IterOpen(first_rev, last_rev)
    \/ \E duration \in IterDurations : IterPass(duration)
    \/ IterClose
    \/ StartLog

SpecStart == InitIter /\ [][NextStart]_vars

(***************************************************************************)
(* SpecProps: sync_svn_props (svnreplay.py, lines 371-390) on the property  *)
(* maps of a source path and of the path in the working copy.  A property   *)
(* value is a sequence of characters.                                      *)
(***************************************************************************)
PropNames == {"svn:mergeinfo", "color", "priority"}
PropValues == {<<>>, <<"r">>, <<"b">>, <<"-", "1">>}
PropMaps == UNION {[K -> PropValues] : K \in SUBSET PropNames}

InitProps ==
    /\ source_props \in PropMaps
    /\ target_props \in PropMaps
    /\ srcLog = {}
    /\ source_ancestors = <<>>
    /\ pc = "props_idle"
    /\ iter = NoIter
    /\ IterRest

\* Lines 378-380: "svn:mergeinfo" is taken out of source_props.
WithoutMergeinfo(props) == [p \in DOMAIN props \ {"svn:mergeinfo"} |-> props[p]]

\* Lines 381-384: the properties "svn propdel" is run for.
PropsToDelete(source, target) == DOMAIN target \ DOMAIN source

\* Lines 385-390: the properties "svn propset" is run for.
PropsToSet(source, target) ==
    {p \in DOMAIN source : p \notin DOMAIN target \/ source[p] # target[p]}

\* run_svn(["propset", prop, value, path]) (line 390, shell.py run_command):
\* the value is a word of the command line, and svn reads a word that starts
\* with "-" as an option and fails.
ReadAsOption(value) == value # <<>> /\ value[1] = "-"

\* The properties of the path after the propdel and propset commands of the
\* properties in dels and sets.
PropsAfter(source, target, dels, sets) ==
    [p \in (DOMAIN target \ dels) \cup sets |-> IF p \in sets THEN source[p] ELSE target[p]]

\* sync_svn_props: the loop of the propdel commands, then the loop of the
\* propset commands, which ends at the first command that fails; the order
\* of the loop is the order of a dict.
SyncEnds(source, target, dels, sets, rejected) ==
    IF rejected = {}
    THEN /\ target_props' = PropsAfter(source, target, dels, sets)
         /\ pc' = "props_done"
         /\ UNCHANGED exc
    ELSE /\ \E done \in SUBSET (sets \ rejected) :
                target_props' = PropsAfter(source, target, dels, done)
         /\ pc' = "props_raised"
         /\ exc' = "ExternalCommandFailed"

SyncFrom(source, target) ==
    SyncEnds(source, target, PropsToDelete(source, target), PropsToSet(source, target),
             {p \in PropsToSet(source, target) : ReadAsOption(source[p])})

sync_svn_props ==
    /\ pc = "props_idle"
    /\ SyncFrom(WithoutMergeinfo(source_props), target_props)
    /\ UNCHANGED <<srcLog, source_url, target_log, tgt_nonempty, wc_pending,
                   runs, run_base, options, ret, in_try, rev_map,
                   source_start_rev, source_end_rev, source_rev,
                   source_rev_last, target_rev, target_rev_last,
                   num_entries_proc, it_log_entries, commit_rev, rev_num,
                   handler, bh_count, bh_enabled, exc_at, exit_code, recovery,
                   reported, replayed, lookup, repos, source_base,
                   target_repos, wc, log_queue, log_entry, path_idx,
                   commit_paths, export_paths, source_ancestors, adds, walk,
                   svn_first, iter, source_props>>

NextProps == sync_svn_props

SpecProps == InitProps /\ [][NextProps]_vars

(***************************************************************************)
(* SpecRebuild: build_rev_map (svnreplay.py, lines 411-435) over the log of *)
(* a target repository that holds commits of earlier runs on this source,  *)
(* commits that track another source, commits without svn2svn:* revprops,  *)
(* and commits that carry only some of the svn2svn:* revprops.             *)
(***************************************************************************)
MaxRebuildLog == 2

UrlOther == <<"s", "/", "o">>
Only(revprops, names) == [n \in names |-> revprops[n]]

\* The revprops the commits of the target repository may carry, for the
\* source URL of the run.
RebuildRevprops(url) ==
    {NoRevprops}
    \cup {gen_tracking_revprops(SourceUuid, url, r) : r \in 1..2}
    \cup {gen_tracking_revprops(OtherUuid, url, 1), gen_tracking_revprops(SourceUuid, UrlOther, 1)}
    \cup {Only(gen_tracking_revprops(SourceUuid, url, 1), names) :
             names \in {{"svn2svn:source_rev"}, {"svn2svn:source_uuid"},
                        {"svn2svn:source_uuid", "svn2svn:source_url"}}}
    \cup {Only(gen_tracking_revprops(OtherUuid, url, 1), {"svn2svn:source_uuid"})}

RebuildLogs(url) ==
    UNION {[1..n -> {Commit(p, "other", None) : p \in RebuildRevprops(url)}] :
              n \in 0..MaxRebuildLog}

InitRebuild ==
    /\ source_url \in {Unquote(a) : a \in SourceUrlArgs}
    /\ target_log \in RebuildLogs(source_url)
    /\ tgt_nonempty = (target_log # <<>>)
    /\ run_base = Len(target_log)
    /\ rev_map = EmptyMap
    /\ lookup = <<>>
    /\ srcLog = SrcRevs
    /\ NoProps
    /\ IdleRun

\* Lines 427-430: the subscripts revprops['svn2svn:source_uuid'],
\* revprops['svn2svn:source_url'] and revprops['svn2svn:source_rev'] of a
\* dict that holds the svn2svn:* revprops of the entry; "and" stops at the
\* first comparison that fails.
RevpropsKeyError(revprops, repos_uuid, info_url) ==
    /\ DOMAIN revprops \cap TrackingNames # {}
    /\ \/ "svn2svn:source_uuid" \notin DOMAIN revprops
       \/ /\ revprops["svn2svn:source_uuid"] = repos_uuid
          /\ \/ "svn2svn:source_url" \notin DOMAIN revprops
             \/ /\ revprops["svn2svn:source_url"] = Quote(info_url)
                /\ "svn2svn:source_rev" \notin DOMAIN revprops

\* The target revisions at which the loop of build_rev_map raises KeyError.
RebuildRaisesAt(log, repos_uuid, info_url) ==
    {rev \in 1..Len(log) : RevpropsKeyError(log[rev].revprops, repos_uuid, info_url)}

\* The loop over the log entries of the target: rev_map holds what the
\* entries before the first KeyError have put into it.
RebuildUpTo(log, raises, repos_uuid, info_url) ==
    IF raises = {}
    THEN /\ rev_map' = build_rev_map(log, repos_uuid, info_url)
         /\ pc' = "rebuild_done"
         /\ UNCHANGED exc
    ELSE /\ rev_map' = build_rev_map(SubSeq(log, 1, MinOf(raises) - 1), repos_uuid, info_url)
         /\ pc' = "rebuild_raised"
         /\ exc' = "KeyError"

\* Line 920: build_rev_map(target_url, target_rev_last, source_info).
RebuildRevMap ==
    /\ pc = "idle"
    /\ RebuildUpTo(target_log, RebuildRaisesAt(target_log, SourceUuid, SvnInfoUrl(source_url)),
                   SourceUuid, SvnInfoUrl(source_url))
    /\ UNCHANGED <<srcLog, source_url, target_log, tgt_nonempty, wc_pending,
                   runs, run_base, options, ret, in_try, source_start_rev,
                   source_end_rev, source_rev, source_rev_last, target_rev,
                   target_rev_last, num_entries_proc, it_log_entries,
                   commit_rev, rev_num, handler, bh_count, bh_enabled, exc_at,
                   exit_code, recovery, reported, replayed, lookup, repos,
                   source_base, target_repos, wc, log_queue, log_entry,
                   path_idx, commit_paths, export_paths, source_ancestors,
                   adds, walk, svn_first, iter, source_props, target_props>>

NextRebuild == RebuildRevMap

SpecRebuild == InitRebuild /\ [][NextRebuild]_vars

(***************************************************************************)
(* Properties of the run driver.                                           *)
(***************************************************************************)
\* Target revisions committed by commit_from_svn_log_entry in the current run,
\* and the source revision each of them replays.
RunCommits == {i \in (run_base + 1)..Len(target_log) : target_log[i].by = "replay"}
SrcOf(i) == target_log[i].src

\* C1: within one run the replay commits are made in strictly increasing
\* source-revision order (a later target revision replays a later source
\* revision), and between revisions the rev map holds, for any two source
\* revisions s1 < s2 committed by the run, map(s1) < map(s2).
C1_IncreasingOrder ==
    /\ \A i, j \in RunCommits : i < j => SrcOf(i) < SrcOf(j)
    /\ pc = "loop_next" =>
          \A i, j \in RunCommits : SrcOf(i) < SrcOf(j) =>
              /\ SrcOf(i) \in DOMAIN rev_map
              /\ SrcOf(j) \in DOMAIN rev_map
              /\ rev_map[SrcOf(i)] < rev_map[SrcOf(j)]

C1_Witness == pc = "loop_next" /\ Cardinality(RunCommits) >= 2

\* The replay commits of the target log are in increasing source-revision order.
LogAscending ==
    \A i, j \in 1..Len(target_log) :
        (i < j /\ target_log[i].by = "replay" /\ target_log[j].by = "replay")
            => target_log[i].src < target_log[j].src

\* C2 (as written): the rev map is strictly monotone in every reachable state,
\* also after a resume rebuild from any target log.
C2_MonotoneAlways == Monotone(rev_map)

\* C2 (amended): the rev map is strictly monotone in every state of a run that
\* starts afresh, and in every state of a resumed run whose target log holds
\* its replay commits in increasing source-revision order.
C2_MonotoneAscendingLog ==
    (options.cont_from_break => LogAscending) => Monotone(rev_map)

C2_Witness ==
    /\ options.cont_from_break
    /\ LogAscending
    /\ Cardinality(DOMAIN rev_map) >= 2
    /\ RunCommits # {}
    /\ pc = "loop_next"

\* C3: get_rev_map(s) returns the value of the largest key r <= s of the rev
\* map, returns None exactly when the map has no key <= s, and leaves the map
\* as it was.
C3_GetRevMap ==
    /\ [](lookup # <<>> =>
            LET s == lookup[1]
                K == {r \in DOMAIN rev_map : r <= s}
            IN  /\ (lookup[2] = None) <=> (K = {})
                /\ K # {} => lookup[2] = rev_map[MaxOf(K)])
    /\ [][rev_map' = rev_map]_vars

C3_Witness ==
    /\ lookup # <<>>
    /\ lookup[1] \notin DOMAIN rev_map
    /\ \E r \in DOMAIN rev_map : r < lookup[1]
    /\ \E r \in DOMAIN rev_map : r > lookup[1]

\* The three tracking revprops of target revision i name the configured source
\* and the source revision the commit replays, which exists in the source.
TracksSource(i) ==
    /\ TrackingNames \subseteq DOMAIN target_log[i].revprops
    /\ target_log[i].revprops["svn2svn:source_uuid"] = SourceUuid
    /\ target_log[i].revprops["svn2svn:source_url"] = Quote(source_url)
    /\ target_log[i].revprops["svn2svn:source_rev"] = target_log[i].src
    /\ target_log[i].src \in srcLog

\* C6 (as written): every commit the engine makes to the target carries the
\* three tracking revprops, with source_rev the replayed source revision.
C6_EveryEngineCommit ==
    \A i \in 1..Len(target_log) :
        target_log[i].by \in {"replay", "pad"} => TracksSource(i)

\* C6 (amended): every commit made by commit_from_svn_log_entry carries the
\* three tracking revprops, with source_rev the replayed source revision, which
\* exists in the source; the placeholder commits of keep_revnum carry none.
C6_ReplayCommits ==
    \A i \in 1..Len(target_log) :
        /\ target_log[i].by = "replay" => TracksSource(i)
        /\ target_log[i].by = "pad" => target_log[i].revprops = NoRevprops

C6_Witness ==
    /\ \E i \in RunCommits : i > run_base + 1 /\ SrcRevprops(SrcOf(i)) # NoRevprops
    /\ \E i \in 1..Len(target_log) : target_log[i].by = "pad"

\* The rev map a resumed run starts from.
ResumedMap ==
    IF options.cont_from_break
    THEN build_rev_map(SubSeq(target_log, 1, run_base), SourceUuid, SvnInfoUrl(source_url))
    ELSE EmptyMap

\* C8 (as written): between revisions the rev map holds an entry for exactly
\* the source revisions the run has replayed so far.
C8_ExactlyReplayed == pc = "loop_next" => DOMAIN rev_map = replayed

\* C8 (amended): between revisions the rev map holds the entries a resume
\* rebuilt from the target log, and one entry for each source revision whose
\* replay in this run made a target commit, mapped to that commit's revision; a
\* replayed revision whose commit made no target revision has none.
C8_CommittedRevisions ==
    pc = "loop_next" =>
        /\ DOMAIN rev_map = DOMAIN ResumedMap \cup {SrcOf(i) : i \in RunCommits}
        /\ \A i \in RunCommits : SrcOf(i) \in replayed /\ rev_map[SrcOf(i)] = i
        /\ \A s \in DOMAIN ResumedMap \ {SrcOf(i) : i \in RunCommits} :
              rev_map[s] = ResumedMap[s]

C8_Witness ==
    /\ pc = "loop_next"
    /\ RunCommits # {}
    /\ replayed \ DOMAIN rev_map # {}
    /\ ~options.dry_run

\* The steps between the start of "svn commit" and the end of the revprop sets.
CriticalPcs == {"commit_svn", "commit_date", "commit_author"}

\* C9 (as written): whatever the number of SIGINTs, no KeyboardInterrupt is
\* raised inside the commit critical section.
C9_NeverInterrupted == ~(exc = "KeyboardInterrupt" /\ exc_at \in CriticalPcs)

\* C9 (amended): no KeyboardInterrupt is raised inside the commit critical
\* section unless the handler has counted `emphatic` SIGINTs and given way; and
\* the commit returns to its caller only if no SIGINT was trapped: with one to
\* emphatic trapped, KeyboardInterrupt is raised right after the section.
C9_DeferredUpToEmphatic ==
    /\ (exc = "KeyboardInterrupt" /\ exc_at \in CriticalPcs /\ pc # "exit")
          => bh_count >= emphatic
    /\ pc \in {"import_after", "loop_after"} => bh_count = 0
    /\ (pc = "commit_disable" /\ bh_count < emphatic) => handler = "bh"

C9_Witness ==
    /\ pc = "except_kbd"
    /\ exc = "KeyboardInterrupt"
    /\ exc_at = "commit_disable"
    /\ bh_count > 1
    /\ bh_count < emphatic
    /\ rev_num # None

\* The recovery commands ran in the order cleanup, revert, removal of
\* unversioned paths.
RecoveryDone ==
    \E i, j, k \in DOMAIN recovery :
        /\ i < j /\ j < k
        /\ recovery[i] = "cleanup"
        /\ recovery[j] = "revert"
        /\ recovery[k] = "rm_unversioned"

Decisions == {adds[i] : i \in 1..Len(adds)}

\* The eldest step of the chain find_svn_ancestors returned for a decision.
Eldest(d) == d.chain[Len(d.chain)]

\* The content the source holds for the path of a decision.
SourceContent(d) ==
    repos.tree[d.source_rev][join_path(d.source_base, d.path_offset)].content

\* C4: whenever the chain of an added path (a changed path of the log entry,
\* not a child met in the recursion) reaches the source base and rev_map maps
\* the copy-from revision c of its eldest step, do_svn_add runs svn copy from
\* the eldest step's copyfrom_path, taken relative to the source base, at
\* target revision get_rev_map(c).
C4_CopyFromMappedAncestor ==
    \A d \in Decisions :
        (/\ d.depth = 0
         /\ d.chain # <<>>
         /\ get_rev_map(rev_map, Eldest(d).copyfrom_rev) # None)
        => /\ d.branch = "copy"
           /\ d.copy_src = Strip(DropFirst(Eldest(d).copyfrom_path, Len(d.source_base)))
           /\ d.copy_rev = get_rev_map(rev_map, Eldest(d).copyfrom_rev)

BaseOffset(q) == Strip(DropFirst(q, Len(source_base)))

\* The files the source holds below the source base at revision sr.
SourceFiles(sr) ==
    {q \in DOMAIN repos.tree[sr] :
        /\ q # source_base
        /\ is_child_path(q, source_base)
        /\ repos.tree[sr][q].kind = "file"}

\* C7: for every source revision sr of rev_map and every file below the
\* source base at sr, the target holds at revision rev_map[sr] a file at the
\* same offset with the same content.
C7_ContentEquivalence ==
    \A sr \in DOMAIN rev_map :
        \A q \in SourceFiles(sr) :
            /\ BaseOffset(q) \in DOMAIN target_repos[rev_map[sr]].tree
            /\ target_repos[rev_map[sr]].tree[BaseOffset(q)].content
                   = repos.tree[sr][q].content

(***************************************************************************)
(* Properties of the end of a run, of resume and of the working copy.       *)
(***************************************************************************)
\* Source revisions whose target commit was made in the current run.
RunCommitted == {SrcOf(i) : i \in RunCommits}

\* C11: when the run has printed its final summary, the source revision it
\* reports is the greatest source revision whose target commit completed in
\* this run, or the start revision when no commit completed.
C11_ReportedLastCommitted ==
    (pc = "exit" /\ reported # None) =>
        reported = IF RunCommitted = {} THEN source_start_rev ELSE MaxOf(RunCommitted)

\* A run interrupted inside the commit critical section: the commit is in the
\* target, the summary names an earlier revision.
C11_InterruptedCommit ==
    /\ pc = "exit"
    /\ exc = "KeyboardInterrupt"
    /\ exc_at = "commit_disable"
    /\ RunCommitted # {}
    /\ reported # None
    /\ reported < MaxOf(RunCommitted)

\* A run without exception whose last revision changed nothing in the target.
C11_EmptyCommit ==
    /\ pc = "exit"
    /\ exit_code = 0
    /\ ~options.dry_run
    /\ RunCommitted # {}
    /\ reported > MaxOf(RunCommitted)

\* The rev map a resumed run rebuilds from the target log it finds.
RebuiltRevMap == build_rev_map(SubSeq(target_log, 1, run_base), SourceUuid, SvnInfoUrl(source_url))

\* Source revisions of the log of the source path up to the end revision.
SourceRevs == {r \in srcLog : r <= MaxSrcRev}

\* The run is in resume mode and has rebuilt its rev map.
Resumed == options.cont_from_break /\ pc \notin {"idle", "build_rev_map"}

\* The tracked commits of the configured source a resumed run finds in the
\* target log, and the source revision the newest of them replays.
TrackedCommits == {i \in 1..run_base : RevpropsMatch(target_log[i].revprops, SourceUuid, SvnInfoUrl(source_url))}
NewestTrackedSourceRev == target_log[MaxOf(TrackedCommits)].revprops["svn2svn:source_rev"]
TrackedSourceRev(i) == target_log[i].revprops["svn2svn:source_rev"]
TrackedAscending == \A i, j \in TrackedCommits : i < j => TrackedSourceRev(i) < TrackedSourceRev(j)
AfterNewestTracked == {r \in SourceRevs : r > NewestTrackedSourceRev}

\* C12: a run in resume mode whose rebuilt rev map covers every source
\* revision up to the end revision makes no commit: the target repository
\* stays as the run found it.
C12_ResumeIdempotent ==
    (Resumed /\ SourceRevs \subseteq DOMAIN RebuiltRevMap) => Len(target_log) = run_base

\* C12 (amended): a run in resume mode whose rebuilt rev map covers every
\* source revision up to the end revision, on a target log that holds the
\* tracked commits of this source in increasing source-revision order, makes
\* no commit: the target repository stays as the run found it.
C12_ResumeIdempotentAscending ==
    (Resumed /\ TrackedAscending /\ SourceRevs \subseteq DOMAIN RebuiltRevMap) =>
        /\ Len(target_log) = run_base
        /\ replayed = {}

\* A resumed run on an up-to-date target has run to its end.
C12_Witness ==
    /\ Resumed
    /\ TrackedAscending
    /\ SourceRevs \subseteq DOMAIN RebuiltRevMap
    /\ Cardinality(TrackedCommits) >= 2
    /\ pc = "exit"
    /\ exit_code = 0

\* Source revisions after the largest one of the rebuilt rev map.
AfterLargestMapped == {r \in SourceRevs : r > MaxOf(DOMAIN RebuiltRevMap)}

PendingChanges == {q \in DOMAIN wc : Changed(wc[q])}

\* C14: the working copy holds uncommitted changes only while one source
\* revision is in progress (its changed paths are being applied, its commit
\* is being made or its failure is being recovered); whenever the main loop
\* is about to take the next source revision, the working copy holds no
\* uncommitted change of an earlier revision.
C14_CleanBetweenRevisions ==
    /\ PendingChanges # {} => pc \in {"replay_paths", "replay_commit", "replay_except"}
    /\ pc = "replay_loop" => PendingChanges = {}

\* The same for the run driver: the working copy holds the changes of at most
\* one source revision, and none when a revision is about to be processed.
C14_OneRevisionPending ==
    /\ Cardinality(wc_pending) <= 1
    /\ pc = "process" => wc_pending = {}

C14_Witness ==
    /\ pc = "replay_loop"
    /\ target_rev # None
    /\ Len(commit_paths) >= 2
    /\ HeadRev >= 3

\* C15 (as written): after a run that ends with exit code 0 the working copy
\* has no uncommitted change.
C15_CleanAfterSuccess == (pc = "exit" /\ exit_code = 0) => wc_pending = {}

\* C15 (amended): after a run without --dry-run that ends with exit code 0
\* the working copy has no uncommitted change; a dry run ends with exit code 0
\* and leaves the changes of the one revision it processed uncommitted.
C15_CleanAfterSuccessfulReplay ==
    (pc = "exit" /\ exit_code = 0) =>
        /\ ~options.dry_run => wc_pending = {}
        /\ wc_pending # {} => Cardinality(wc_pending) = 1 /\ wc_pending \subseteq replayed

C15_Witness ==
    /\ pc = "exit"
    /\ exit_code = 0
    /\ ~options.dry_run
    /\ Cardinality(RunCommits) >= 2

\* A dry run has ended with exit code 0 and uncommitted changes.
C15_DryRunPending ==
    /\ pc = "exit"
    /\ exit_code = 0
    /\ options.dry_run
    /\ wc_pending # {}


(***************************************************************************)
(* Properties of find_svn_ancestors.                                       *)
(***************************************************************************)
\* The chain find_svn_ancestors returned.
Returned == walk.ancestors

\* The loop and the recursive definition of find_svn_ancestors agree.
WalkAgrees ==
    pc = "walk_done" =>
        Returned = find_svn_ancestors(walk.start_path, walk.start_rev, walk.stop_base_path).ancestors

\* C16: a non-empty chain returned for (p, r) with stop_base_path B starts at
\* path p, is linked hop by hop (the copyfrom_path of a step is the path of
\* the next step, whose revision is not above the copyfrom_rev of the step,
\* which is below the revision of the step), and ends with a copyfrom_path
\* that is B or below B.
C16_ChainLinked ==
    (pc = "walk_done" /\ Returned # <<>>) =>
        /\ Returned[1].path = walk.start_path
        /\ Returned[1].revision <= walk.start_rev
        /\ \A i \in 1..Len(Returned) : Returned[i].copyfrom_rev < Returned[i].revision
        /\ \A i \in 1..(Len(Returned) - 1) :
              /\ Returned[i].copyfrom_path = Returned[i + 1].path
              /\ Returned[i + 1].revision <= Returned[i].copyfrom_rev
        /\ walk.stop_base_path # <<>> =>
              is_child_path(Returned[Len(Returned)].copyfrom_path, walk.stop_base_path)

C16_Witness ==
    /\ pc = "walk_done"
    /\ Len(Returned) >= 2
    /\ walk.stop_base_path # <<>>

\* The walk is in its loop, or has ended by a return or an exception.
Walking == pc = "walk_loop"
WalkEnded == pc \in {"walk_done", "walk_raised"}

\* C17: find_svn_ancestors terminates: every walk that was started ends, and
\* every pass of the loop that does not end the walk moves the query point to
\* an older revision, also when the deepest change matching cur_path is an M.
C17_Terminates ==
    /\ Walking ~> WalkEnded
    /\ [][(Walking /\ ~walk.done /\ Walking') =>
             (walk'.done \/ walk'.cur_rev < walk.cur_rev)]_vars

\* The walk has followed a copy found above a path whose own change is an M.
C17_Witness ==
    /\ Walking
    /\ walk.ancestors # <<>>
    /\ walk.first_iter_done
    /\ Matches(walk.ancestors[1].revision, walk.ancestors[1].path)[1].action = "M"
    /\ walk.cur_rev < walk.start_rev


(***************************************************************************)
(* The log iterator (SpecIter, SpecIterLive, SpecChunk)                     *)
(***************************************************************************)
YieldedRevs == [i \in 1..Len(iter.yielded) |-> iter.yielded[i].revision]
IterRunning == pc \in {"iter_loop", "iter_done", "iter_raised"}
IterEnded == pc \in {"iter_done", "iter_raised"}
StrictlyAscending(revs) == \A i \in 1..(Len(revs) - 1) : revs[i] < revs[i + 1]

\* C18: without an ancestor chain the iterator yields exactly the log entries
\* of the URL with first_rev <= revision <= last_rev, each once and in
\* strictly ascending order, and never an entry past last_rev.
C18_YieldsWindow ==
    (IterRunning /\ source_ancestors = <<>>) =>
        /\ StrictlyAscending(YieldedRevs)
        /\ \A i \in 1..Len(YieldedRevs) : YieldedRevs[i] <= iter.last_rev
        /\ IterEnded => YieldedRevs = iter_svn_log_entries(srcLog, iter.first_rev, iter.last_rev)

\* The entries are lost to a request that lies before the creation of the path.
C18_LostEntries ==
    /\ pc = "iter_raised"
    /\ source_ancestors = <<>>
    /\ iter.first_rev # 1
    /\ iter.yielded = <<>>
    /\ iter_svn_log_entries(srcLog, iter.first_rev, iter.last_rev) # <<>>
C18_NoLostEntries == ~C18_LostEntries

\* What holds of the entries when no request fails.
C18_YieldsWindowUnlessRaised ==
    (IterRunning /\ source_ancestors = <<>>) =>
        /\ StrictlyAscending(YieldedRevs)
        /\ \A i \in 1..Len(YieldedRevs) : YieldedRevs[i] <= iter.last_rev
        /\ pc = "iter_done" => YieldedRevs = iter_svn_log_entries(srcLog, iter.first_rev, iter.last_rev)

InLoop == pc = "iter_loop"
\* A pass of the while loop that no failing request ends, and one after which
\* the loop goes on.
Pass == InLoop /\ iter' # iter /\ pc' # "iter_raised"
PassOn == Pass /\ pc' = "iter_loop"
\* The first revision of the window a pass asks for (lines 343-354).
WindowStart == NextSegment(source_ancestors, iter.cur_url, iter.cur_rev, iter.cur_anc_idx, iter.cur_anc_end_rev).rev
\* The revisions of the path inside the range the caller asked for.
Wanted == {r \in srcLog : iter.start_rev <= r /\ r <= iter.last_rev}
YieldedSet == {iter.yielded[i].revision : i \in 1..Len(iter.yielded)}

\* The state after a pass whose chunk was empty.
AfterGap == InLoop /\ iter.stop_rev # None /\ iter.entries = <<>>

\* C19: the iterator terminates: a started iteration ends; every pass after
\* which the loop goes on has advanced cur_rev; a pass whose chunk was empty
\* sets cur_rev right behind the window that was asked for and does not end
\* the loop; and the pass after an empty chunk yields the entries that follow
\* the gap, from that cur_rev on.
C19_TerminatesPastGaps ==
    /\ InLoop ~> IterEnded
    /\ [][PassOn => iter'.cur_rev > iter.cur_rev]_vars
    /\ [][(Pass /\ iter'.entries = <<>>) =>
             /\ pc' = "iter_loop"
             /\ iter'.cur_rev = iter'.stop_rev + 1
             /\ iter'.yielded = iter.yielded]_vars
    /\ [][(AfterGap /\ Pass) => \A r \in srcLog :
                     (iter.cur_rev <= r /\ r <= iter.last_rev /\ (pc' = "iter_loop" => r < iter'.cur_rev))
                         => \E i \in 1..Len(iter'.yielded) : iter'.yielded[i].revision = r]_vars

\* An empty chunk has ended right below the copy-from revision of an
\* ancestor, and the entry of that revision was passed over.
C19_LostBehindGap ==
    /\ pc = "iter_done"
    /\ \E r \in Wanted \ YieldedSet :
          /\ \E i \in 1..Len(source_ancestors) : source_ancestors[i].copyfrom_rev = r
          /\ \A q \in srcLog : ~(iter.start_rev <= q /\ q < r)
C19_NothingLostBehindGap == ~C19_LostBehindGap

\* The iterator terminates: a started iteration ends; every pass after which
\* the loop goes on has advanced cur_rev; a pass whose chunk was empty goes on
\* right behind the window that was asked for and does not end the loop; no
\* pass leaves an entry behind between the start of its window and the
\* revision the next pass starts at; so, without an ancestor chain, an
\* iteration that ends normally has yielded every entry of the range.
C19_Terminates ==
    /\ InLoop ~> IterEnded
    /\ [][PassOn => iter'.cur_rev > iter.cur_rev]_vars
    /\ [][(Pass /\ iter'.entries = <<>>) =>
             /\ pc' = "iter_loop"
             /\ iter'.cur_rev = iter'.stop_rev + 1
             /\ iter'.cur_rev > iter.cur_rev
             /\ iter'.yielded = iter.yielded]_vars
    /\ [][Pass => \A r \in srcLog :
                     (WindowStart <= r /\ r <= iter.last_rev /\ (pc' = "iter_loop" => r < iter'.cur_rev))
                         => \E i \in 1..Len(iter'.yielded) : iter'.yielded[i].revision = r]_vars
    /\ [](pc = "iter_done" /\ source_ancestors = <<>> => Wanted \subseteq YieldedSet)

\* An iteration has ended with an entry yielded behind a gap that no window
\* of the first passes spans.
C19_Witness ==
    /\ pc = "iter_done"
    /\ \E i \in 1..(Len(iter.yielded) - 1) :
          iter.yielded[i + 1].revision - iter.yielded[i].revision > 2 * log_min_chunk_length + 2

\* With an ancestor chain the entry of a copy-from revision is passed over
\* when the chunk before it ended right below it.
C19_PassedOver == pc = "iter_done" /\ ~(Wanted \subseteq YieldedSet)

InAdapt == pc = "chunk_adapt"
Doubled(n) == IF 2 * n > log_max_chunk_length THEN log_max_chunk_length ELSE 2 * n
Halved(n) == IF n \div 2 < log_min_chunk_length THEN log_min_chunk_length ELSE n \div 2

\* C20: the chunk length starts at 10 and stays within 10..10000 after any
\* sequence of calls: a call of less than 10 s doubles it up to 10000, a call
\* of more than 20 s halves it down to 10, and any other call leaves it.
C20_ChunkLength ==
    /\ InAdapt /\ iter.duration = None => iter.chunk_length = 10
    /\ [](InAdapt => 10 <= iter.chunk_length /\ iter.chunk_length <= 10000)
    /\ [][InAdapt =>
             iter'.chunk_length = IF iter'.duration < 10 THEN Doubled(iter.chunk_length)
                                  ELSE IF iter'.duration > 20 THEN Halved(iter.chunk_length)
                                  ELSE iter.chunk_length]_vars

\* The chunk length has reached the cap and has come down again to a length
\* that no doubling from 10 gives.
C20_Witness == InAdapt /\ iter.chunk_length = 5000 /\ iter.duration = 21
C20_AtCap == InAdapt /\ iter.chunk_length = 10000 /\ iter.duration = 9

(***************************************************************************)
(* Run modes of the run driver (Spec)                                       *)
(***************************************************************************)
\* The target revisions committed by the run that is under way or has ended last.
RunRevs == (run_base + 1)..Len(target_log)
ReplayRevs == {t \in RunRevs : target_log[t].by = "replay"}
PadRevs == {t \in RunRevs : target_log[t].by = "pad"}
\* The commit of the initial import of a run that does not resume.
IsImport(t) == ~options.cont_from_break /\ t = MinOf(ReplayRevs)

\* C21: in keep-revnum mode every target commit that replays source revision
\* s, the initial import included, has the target revision number s.
C21_KeepRevnum ==
    options.keep_revnum => \A t \in ReplayRevs : target_log[t].src = t

\* The initial import of source revision 2 is committed as target revision 1.
C21_ImportNotPadded ==
    /\ options.keep_revnum
    /\ \E t \in ReplayRevs : IsImport(t) /\ target_log[t].src > t
C21_ImportPadded == ~C21_ImportNotPadded

\* The commits of the loop have the number of their source revision.
C21_KeepRevnumInLoop ==
    options.keep_revnum => \A t \in ReplayRevs : ~IsImport(t) => target_log[t].src = t

\* C22: in dry-run mode the run processes at most one source revision, makes
\* no commit to the target repository, neither a replay commit nor a
\* placeholder commit, and leaves the rev map as it was built.
C22_DryRun ==
    options.dry_run =>
        /\ Cardinality(replayed) <= 1
        /\ RunRevs = {}
        /\ rev_map \in {EmptyMap, RebuiltRevMap}

\* A dry run with --keep-revnum has made a placeholder commit.
C22_DryRunPadded == options.dry_run /\ PadRevs # {}
C22_DryRunNotPadded == ~C22_DryRunPadded

\* A dry run makes no replay commit and processes one revision at most.
C22_DryRunNoReplayCommit ==
    options.dry_run =>
        /\ Cardinality(replayed) <= 1
        /\ ReplayRevs = {}
        /\ rev_map \in {EmptyMap, RebuiltRevMap}
        /\ ~options.keep_revnum => RunRevs = {}

\* A run that does not resume and has no --force looks at a target path
\* that has content.
Refusing == pc = "force_check" /\ ~options.force_nocont /\ tgt_nonempty

\* C23: without resume and without --force a run on a target path with
\* content refuses to proceed: up to the test it has made no commit and
\* applied no source change, and the test ends the run with a non-zero exit
\* code, leaving the target repository and the working copy as they are (as
\* does an interrupt that arrives before the test).
C23_RefusesNonEmpty ==
    /\ [](pc = "force_check" => ~options.cont_from_break /\ RunRevs = {} /\ wc_pending = {} /\ replayed = {})
    /\ [][Refusing => /\ pc' \in {"exit", "uncaught"}
                      /\ pc' = "exit" => exit_code' = 1
                      /\ UNCHANGED <<target_log, wc_pending, replayed, rev_map>>]_vars
    /\ [][pc = "uncaught" => /\ pc' = "exit"
                             /\ exit_code' = 1
                             /\ UNCHANGED <<target_log, wc_pending, replayed, rev_map>>]_vars

\* A run has been refused on a target with earlier commits.
C23_Witness ==
    /\ pc = "exit" /\ exit_code = 1 /\ ~options.cont_from_break /\ ~options.force_nocont
    /\ tgt_nonempty /\ run_base > 0 /\ Len(target_log) = run_base /\ replayed = {}

\* The log entries of the replayed path from rev_start to rev_end.
StartRange == {r \in srcLog : iter.first_rev <= r /\ r <= iter.last_rev}

\* C24: the initial import is taken at the first log entry of the replayed
\* path with rev_start <= revision <= rev_end, so a start revision below the
\* first commit of the path falls forward to it; the run fails only when the
\* range holds no entry.
C24_ImportStart ==
    /\ pc = "start_found" => StartRange # {} /\ source_start_rev = MinOf(StartRange)
    /\ pc \in {"start_failed", "iter_raised"} => StartRange = {}

\* The run fails on a range that holds entries.
C24_FailedWithEntries == pc = "iter_raised" /\ iter.yielded = <<>> /\ StartRange # {}
C24_NeverFailedWithEntries == ~C24_FailedWithEntries

(***************************************************************************)
(* Unsupported actions, the ancestry walk, the iterator over an ancestor    *)
(* chain, and the order of the operations within one source revision.       *)
(***************************************************************************)
\* Revision r of the source changes a path at or below the source base with
\* an action outside valid_svn_actions.
HasUnsupported(r) ==
    \E d \in Range(repos.log[r]) :
        is_child_path(d.path, source_base) /\ d.action \notin valid_svn_actions

\* The loop over the changed paths stands at a path at or below the URL of the
\* entry whose action is outside valid_svn_actions.
AtUnsupported ==
    /\ pc = "replay_paths"
    /\ path_idx <= Len(repos.log[log_entry.revision])
    /\ Related
    /\ CurPath.action \notin valid_svn_actions

C25_ImportedUnsupported ==
    /\ source_start_rev # None
    /\ HasUnsupported(source_start_rev)
    /\ source_start_rev \in DOMAIN rev_map
    /\ exit_code = 0

C25_RaisedByWalk ==
    /\ pc = "replay_except"
    /\ exc = "UnsupportedSVNAction"
    /\ path_idx <= Len(repos.log[log_entry.revision])
    /\ CurPath.action \in valid_svn_actions

\* The change that ended the loop of the walk: the first match of the last
\* query that is not an M.
LastMatches == get_first_svn_log_entry(walk.cur_path, walk.cur_rev).matches
LastChange == LastMatches[FirstAction(LastMatches, 1)]

\* The loop has ended and the function has not returned yet.
WalkLoopEnded == pc = "walk_loop" /\ walk.done

\* The last query was made at a path at or below stop_base_path that a copy
\* had led to: the walk has reached stop_base_path.
ReachedBase ==
    /\ walk.stop_base_path # <<>>
    /\ walk.ancestors # <<>>
    /\ is_child_path(walk.cur_path, walk.stop_base_path)

\* The loop ended on a delete, or on an add or replace without copy-from,
\* before stop_base_path was reached.
EndedWithoutAncestry ==
    /\ WalkLoopEnded
    /\ ~ReachedBase
    /\ LastMatches # <<>>
    /\ FirstAction(LastMatches, 1) # 0
    /\ LastChange.action = "D" \/ LastChange.copyfrom_revision = None

\* C26: when the loop of find_svn_ancestors has ended on a delete or on an
\* add or replace without copy-from before reaching stop_base_path, the
\* function returns the empty chain if a stop_base_path was given, whatever
\* hops it had collected, and the hops collected so far if none was given.
C26_NoAncestryReturnsEmpty ==
    /\ [][EndedWithoutAncestry =>
            /\ pc' = "walk_done"
            /\ walk'.ancestors = IF walk.stop_base_path # <<>> THEN <<>> ELSE walk.ancestors]_vars
    /\ [](EndedWithoutAncestry => (walk.no_ancestry <=> walk.stop_base_path # <<>>))
    /\ []((pc = "walk_done" /\ walk.no_ancestry) => Returned = <<>>)

\* The walk has ended on a plain add outside stop_base_path with a copy hop
\* collected; the next step returns.
C26_Witness ==
    /\ EndedWithoutAncestry
    /\ walk.stop_base_path # <<>>
    /\ walk.ancestors # <<>>
    /\ LastChange.action = "A"

\* Without a stop_base_path the walk has returned the hops it collected.
C26_HopsReturned ==
    /\ pc = "walk_done"
    /\ walk.stop_base_path = <<>>
    /\ Len(Returned) >= 2
    /\ ~walk.no_ancestry


\* The path bears the name url in revision rev.
NamedAt(url, rev) == NameExists(source_ancestors, srcLog, url, rev)

\* The hops of the chain that copy from the name url, and the copy-from
\* revision that ends the part of the history under that name.
HopsFrom(url) == {i \in 1..Len(source_ancestors) : source_ancestors[i].copyfrom_path = url}
CopyFromRevOf(url) == source_ancestors[CHOOSE i \in HopsFrom(url) : TRUE].copyfrom_rev

\* The iterator has made a request in its loop.
Queried == pc \in {"iter_loop", "iter_done"} /\ iter.stop_rev # None

\* C27: with an ancestor chain the iterator yields its entries in ascending
\* revision order, each entry carries the URL the path had in the revision
\* of the entry (the part of the chain it belongs to, oldest part first), a
\* request returns no entry of a revision in which the path had another name
\* than the one asked for, and no request for a name that was copied from
\* ends past the copy-from revision.
C27_SegmentsOldestFirst ==
    (source_ancestors # <<>> /\ pc \in {"iter_loop", "iter_done"}) =>
        /\ StrictlyAscending(YieldedRevs)
        /\ \A i \in 1..Len(iter.yielded) : NamedAt(iter.yielded[i].url, iter.yielded[i].revision)
        /\ Queried => \A i \in 1..Len(iter.entries) : NamedAt(iter.cur_url, iter.entries[i])
        /\ (Queried /\ HopsFrom(iter.cur_url) # {}) => iter.stop_rev <= CopyFromRevOf(iter.cur_url)

\* An entry was yielded under a name the path got only later.
C27_TaggedWithLaterName ==
    /\ source_ancestors # <<>>
    /\ pc \in {"iter_loop", "iter_done"}
    /\ \E i \in 1..Len(iter.yielded) :
          iter.yielded[i].revision < NameBorn(source_ancestors, srcLog, iter.yielded[i].url)
C27_NeverTaggedWithLaterName == ~C27_TaggedWithLaterName

\* What holds of the order of the entries and of the end of the requests.
C27_AscendingAndBounded ==
    (source_ancestors # <<>> /\ pc \in {"iter_loop", "iter_done"}) =>
        /\ StrictlyAscending(YieldedRevs)
        /\ (Queried /\ HopsFrom(iter.cur_url) # {}) => iter.stop_rev <= CopyFromRevOf(iter.cur_url)

\* The changed paths of the revision being replayed, as the loop meets them.
RevChanges == repos.log[log_entry.revision]
OffsetOf(d) == Strip(DropFirst(d.path, Len(log_entry.url)))
RelatedTo(d) == is_child_path(d.path, log_entry.url)

\* The offsets of the changed paths at or below the URL of the entry among the
\* first n changed paths, in the order of the list.
AppliedOffsets(n) ==
    LET S == {i \in 1..n : RelatedTo(RevChanges[i])}
    IN  [k \in 1..Cardinality(S) |->
            OffsetOf(RevChanges[CHOOSE i \in S : Cardinality({j \in S : j < i}) = k - 1])]

\* The loop stands at an R of a path that is versioned in the working copy.
AtReplace ==
    /\ pc = "replay_paths"
    /\ path_idx <= Len(RevChanges)
    /\ Related
    /\ CurPath.action = "R"
    /\ in_svn(wc, CurOffset, FALSE)

\* The path o has been removed from the working copy w: it is gone, or
\* scheduled for deletion or for replacement.
RemovedIn(w, o) == o \notin DOMAIN w \/ w[o].st \in {"deleted", "replaced", "unversioned"}

\* The R changes of the revision on paths the target held before it.
ReplacedOffsets ==
    {OffsetOf(d) : d \in {d \in Range(RevChanges) :
                             d.action = "R" /\ RelatedTo(d) /\ OffsetOf(d) \in DOMAIN WcOf(HeadTree)}}

\* C28: an R of a path that is versioned in the target working copy removes
\* the path and then adds or copies it again within the same source revision,
\* so that the path is scheduled as replaced and the target commit of the
\* revision records one replace of it; the changed paths of a revision are
\* applied one after the other in ascending order of their paths.
C28_ReplaceRecorded ==
    /\ [][AtReplace => RemovedIn(wc', CurOffset)]_vars
    /\ [][(AtReplace /\ pc' = "replay_paths") => wc'[CurOffset].st = "replaced"]_vars
    /\ [](pc = "replay_commit" =>
             \A o \in ReplacedOffsets :
                 wc[o].st = "replaced" /\ o \in CommitSet(wc, commit_paths))
    /\ [](pc \in {"replay_paths", "replay_commit"} =>
             /\ \A i, j \in 1..Len(RevChanges) :
                    i < j => LexLess(RevChanges[i].path, RevChanges[j].path)
             /\ commit_paths = AppliedOffsets(Min2(path_idx - 1, Len(RevChanges))))
    /\ [][(pc = "replay_paths" /\ path_idx' # path_idx /\ pc' = "replay_paths") =>
             path_idx' = path_idx + 1]_vars

\* The run has failed at an R of the replayed base itself, which was neither
\* removed nor replaced.
C28_BaseNotReplaced ==
    /\ pc = "replay_except"
    /\ path_idx <= Len(RevChanges)
    /\ CurPath.action = "R"
    /\ CurOffset = <<>>
    /\ wc[<<>>].st = "normal"
C28_BaseAlwaysReplaced == ~C28_BaseNotReplaced

\* What holds of an R below the replayed base.
C28_ReplaceRecordedBelowBase ==
    /\ [][(AtReplace /\ CurOffset # <<>>) =>
             wc'[CurOffset].st = "replaced" /\ pc' = "replay_paths"]_vars
    /\ [](pc = "replay_commit" =>
             \A o \in ReplacedOffsets \ {<<>>} :
                 wc[o].st = "replaced" /\ o \in CommitSet(wc, commit_paths))

\* A revision with a replaced file, or a replaced directory, is about to be
\* committed.
C28_ReplaceBelowBase ==
    /\ pc = "replay_commit"
    /\ \E o \in ReplacedOffsets : o # <<>> /\ wc[o].kind = "dir"

(***************************************************************************)
(* C29: the deferred exports.                                              *)
(***************************************************************************)
\* The directories whose export the processing of the entry at hand has
\* deferred: the directories added without a copy-from (line 707), the
\* directories do_svn_add has copied (line 540), and what export_paths holds
\* (lines 540, 560 and 707).
PlainDirsAdded ==
    {OffsetOf(RevChanges[i]) : i \in {i \in 1..Min2(path_idx - 1, Len(RevChanges)) :
        /\ RelatedTo(RevChanges[i])
        /\ RevChanges[i].action \in {"A", "R"}
        /\ RevChanges[i].copyfrom_revision = None
        /\ RevChanges[i].kind = "dir"}}
CopiedDirs ==
    {adds[i].path_offset : i \in {i \in 1..Len(adds) :
        adds[i].source_rev = source_rev /\ adds[i].is_dir /\ adds[i].branch = "copy"}}
DeferredDirs == PlainDirsAdded \cup CopiedDirs \cup {export_paths[i] : i \in 1..Len(export_paths)}

\* The working copy holds, at and below offset o, what the source holds at
\* the revision of the entry.
ExportedAt(w, o) ==
    \A q \in DOMAIN repos.tree[source_rev] :
        is_child_path(q, join_path(log_entry.url, o)) =>
            /\ OffsetOf([path |-> q]) \in DOMAIN w
            /\ w[OffsetOf([path |-> q])].disk = repos.tree[source_rev][q].content

IsPrefix(s, t) == Len(s) <= Len(t) /\ SubSeq(t, 1, Len(s)) = s

\* C29: every directory whose export was deferred while a source revision was
\* processed is exported from the source at that revision after the last
\* changed path of the revision was applied and before the commit of that
\* revision; no deferred export is outstanding when the commit is issued.
C29_DeferredExportedBeforeCommit ==
    /\ [](pc = "replay_commit" => \A o \in DeferredDirs : ExportedAt(wc, o))
    /\ [][(pc = "replay_paths" /\ pc' = "replay_paths") => IsPrefix(export_paths, export_paths')]_vars
    /\ [][(pc # "replay_commit" /\ pc' = "replay_commit") =>
             /\ pc = "replay_paths"
             /\ path_idx > Len(RevChanges)
             /\ UNCHANGED <<export_paths, path_idx, target_repos>>]_vars
    /\ [][(pc \notin {"replay_start", "replay_commit"}) => UNCHANGED target_repos]_vars
    /\ [][pc = "replay_commit" => (pc' # "replay_commit" /\ UNCHANGED export_paths)]_vars

\* A revision is about to be committed in which the deferred export of a
\* copied directory has written a file that has no entry of its own among the
\* changed paths and differs from what the copy brought.
C29_Witness ==
    /\ pc = "replay_commit"
    /\ \E o \in CopiedDirs : \E p \in DOMAIN wc :
          /\ p # o
          /\ is_child_path(p, o)
          /\ wc[p].kind = "file"
          /\ wc[p].disk # wc[p].base
          /\ \A i \in 1..Len(RevChanges) : OffsetOf(RevChanges[i]) # p
          /\ o \in {export_paths[i] : i \in 1..Len(export_paths)}

(***************************************************************************)
(* C30: skip_paths.                                                        *)
(***************************************************************************)
\* The offsets of the changed paths, with one of the given actions, of the
\* revision a call of do_svn_add works on.
ListedOffsets(a, actions) ==
    {Strip(DropFirst(d.path, Len(a.source_base))) :
        d \in {d \in Range(repos.log[a.source_rev]) :
                  is_child_path(d.path, a.source_base) /\ d.action \in actions}}

\* A call of do_svn_add from do_svn_add_dir, and one that has changed the
\* path it was called for.
Recursed(a) == a.depth > 0
ActedOn(a) == a.branch = "copy" \/ (a.branch = "fallback" /\ a.before # a.after)

\* C30: the recursion of do_svn_add / do_svn_add_dir never adds, copies or
\* exports a descendant of the copied directory that has its own entry among
\* the changed paths of the revision.
C30_RecursionSkipsListed ==
    \A i \in 1..Len(adds) :
        (Recursed(adds[i]) /\ ActedOn(adds[i])) =>
            adds[i].path_offset \notin ListedOffsets(adds[i], valid_svn_actions \cup OtherActions)

\* The recursion has exported and added a file that has an M entry of its own.
C30_RecursionAddedModified ==
    \E i \in 1..Len(adds) :
        /\ Recursed(adds[i])
        /\ adds[i].branch = "fallback"
        /\ adds[i].before.st = "none"
        /\ adds[i].after.st = "added"
        /\ adds[i].path_offset \in ListedOffsets(adds[i], {"M"})

\* C30 (amended): do_svn_add is never called from do_svn_add_dir for a
\* descendant whose own entry among the changed paths of the revision has the
\* action A, R or D.
C30_RecursionSkipsAddedReplacedDeleted ==
    \A i \in 1..Len(adds) :
        Recursed(adds[i]) => adds[i].path_offset \notin ListedOffsets(adds[i], {"A", "R", "D"})

\* A directory was copied, the recursion has visited one of its children, and
\* another child the source holds at the revision has an A or R entry of its
\* own.
C30_Witness ==
    /\ pc = "replay_commit"
    /\ \E i, j \in 1..Len(adds) :
          /\ adds[i].source_rev = source_rev /\ adds[j].source_rev = source_rev
          /\ adds[i].depth = 0 /\ adds[i].is_dir /\ adds[i].branch = "copy"
          /\ Recursed(adds[j])
          /\ \E o \in ListedOffsets(adds[i], {"A", "R"}) :
                /\ o # adds[i].path_offset
                /\ dirname(o) = adds[i].path_offset
                /\ SrcExists(join_path(adds[i].source_base, o), source_rev)

(***************************************************************************)
(* C31: changed paths outside the source base.                             *)
(***************************************************************************)
\* The loop of process_svn_log_entry is at a changed path that is neither
\* source_base nor below it.
AtUnrelated ==
    /\ pc = "replay_paths"
    /\ path_idx <= Len(RevChanges)
    /\ ~RelatedTo(RevChanges[path_idx])

AllUnrelated == \A i \in 1..Len(RevChanges) : ~RelatedTo(RevChanges[i])

\* C31: a changed path that is neither the source base nor below it causes
\* no operation on the working copy and is not appended to commit_paths; a
\* revision whose changed paths all lie outside the source base leaves the
\* working copy and commit_paths as they were.
C31_UnrelatedIgnored ==
    /\ [][AtUnrelated =>
             /\ UNCHANGED <<wc, commit_paths, export_paths, adds, target_repos, rev_map, exc>>
             /\ path_idx' = path_idx + 1
             /\ pc' = "replay_paths"]_vars
    /\ [](pc \in {"replay_paths", "replay_commit"} =>
             \A i \in 1..Len(commit_paths) :
                 \E j \in 1..Len(RevChanges) :
                     RelatedTo(RevChanges[j]) /\ OffsetOf(RevChanges[j]) = commit_paths[i])
    /\ []((pc \in {"replay_paths", "replay_commit"} /\ AllUnrelated) =>
             /\ commit_paths = <<>>
             /\ export_paths = <<>>
             /\ wc = WcOf(HeadTree))

\* A revision whose changed paths all lie outside the source base has been
\* processed and is about to be committed.
C31_Witness ==
    /\ pc = "replay_commit"
    /\ RevChanges # <<>>
    /\ AllUnrelated
    /\ HeadRev > 0

\* A changed path outside the base was passed over in a revision that also
\* changes the base.
C31_MixedRevision ==
    /\ pc = "replay_commit"
    /\ commit_paths # <<>>
    /\ \E i \in 1..Len(RevChanges) : ~RelatedTo(RevChanges[i])

(***************************************************************************)
(* C32: sync_svn_props.                                                    *)
(***************************************************************************)
\* C32: after sync_svn_props the property map of the target path equals the
\* source path's property map with svn:mergeinfo removed: every property
\* that is only on the target is deleted, every missing or differing source
\* property is set, and svn:mergeinfo is not on the target afterwards.
C32_PropsSynced ==
    pc # "props_idle" =>
        /\ target_props = WithoutMergeinfo(source_props)
        /\ "svn:mergeinfo" \notin DOMAIN target_props

\* The call has failed at a property value that starts with "-", and the
\* property is not on the target.
C32_ValueReadAsOption ==
    /\ pc = "props_raised"
    /\ \E p \in DOMAIN source_props :
          /\ ReadAsOption(source_props[p])
          /\ p \notin DOMAIN target_props

\* What holds of the calls that return.
C32_SyncedOnReturn ==
    /\ pc = "props_done" =>
          /\ target_props = WithoutMergeinfo(source_props)
          /\ "svn:mergeinfo" \notin DOMAIN target_props
    /\ pc = "props_raised" =>
          \E p \in DOMAIN WithoutMergeinfo(source_props) : ReadAsOption(source_props[p])

\* A call has returned for a source path that carries svn:mergeinfo, with
\* properties on the target.
C32_Returned ==
    /\ pc = "props_done"
    /\ "svn:mergeinfo" \in DOMAIN source_props
    /\ target_props # <<>>

(***************************************************************************)
(* C33: the startup rebuild of the rev map.                                *)
(***************************************************************************)
\* The target revisions whose svn2svn:source_uuid and svn2svn:source_url
\* revprops are those of the configured source.
OfConfiguredSource(revprops) ==
    /\ "svn2svn:source_uuid" \in DOMAIN revprops
    /\ "svn2svn:source_url" \in DOMAIN revprops
    /\ revprops["svn2svn:source_uuid"] = SourceUuid
    /\ revprops["svn2svn:source_url"] = Quote(source_url)
MatchingRevs ==
    {t \in 1..Len(target_log) :
        /\ OfConfiguredSource(target_log[t].revprops)
        /\ "svn2svn:source_rev" \in DOMAIN target_log[t].revprops}
MatchingMap ==
    [s \in {target_log[t].revprops["svn2svn:source_rev"] : t \in MatchingRevs} |->
        MaxOf({t \in MatchingRevs : target_log[t].revprops["svn2svn:source_rev"] = s})]

\* C33: the startup rebuild inserts source_rev -> target_rev for exactly the
\* target log entries whose svn2svn:source_uuid and svn2svn:source_url both
\* match the configured source; every other entry (no svn2svn revprops, a
\* different UUID or URL, only part of the svn2svn:* revprops) is skipped
\* without an error.
C33_RebuildExact ==
    pc \in {"rebuild_done", "rebuild_raised"} => (exc = "" /\ rev_map = MatchingMap)

\* The rebuild has raised KeyError at an entry that carries only
\* svn2svn:source_rev.
C33_PartialRaises ==
    /\ pc = "rebuild_raised"
    /\ exc = "KeyError"
    /\ \E t \in 1..Len(target_log) : DOMAIN target_log[t].revprops = {"svn2svn:source_rev"}

\* The rebuild has passed over an entry of an earlier run on the configured
\* source.
C33_OwnEntrySkipped ==
    /\ pc = "rebuild_done"
    /\ MatchingRevs # {}
    /\ rev_map = EmptyMap

\* What holds when no entry carries only part of the svn2svn:* revprops and
\* the URL of the source has no character that urllib.quote escapes.
C33_RebuildExactOnWholeRevprops ==
    (/\ pc \in {"rebuild_done", "rebuild_raised"}
     /\ Quote(source_url) = source_url
     /\ \A t \in 1..Len(target_log) :
           DOMAIN target_log[t].revprops \in {{}, TrackingNames})
        => (exc = "" /\ rev_map = MatchingMap)

\* A rebuild has kept an entry of the configured source and has passed over
\* an entry that tracks another source.
C33_KeptAndSkipped ==
    /\ pc = "rebuild_done"
    /\ rev_map # EmptyMap
    /\ \E t \in 1..Len(target_log) :
          /\ DOMAIN target_log[t].revprops = TrackingNames
          /\ ~OfConfiguredSource(target_log[t].revprops)

(***************************************************************************)
(* C34: the path the walk goes on with after a copy                         *)
(***************************************************************************)
\* The change the walk followed for the hop: the deepest changed path at or
\* above the hop's path in the hop's revision that is not an "M".
HopChange(hop) == Matches(hop.revision, hop.path)[FirstAction(Matches(hop.revision, hop.path), 1)]

\* copyfrom_path followed by what lies below d.path in the path.
PrefixReplaced(path, d) == d.copyfrom_path \o DropFirst(path, Len(d.path))

\* C34: every hop of the ancestry walk leads from its path to the copy-from
\* path of the followed change d, followed by the rest of the path below
\* d.path: only the leading d.path is replaced, also when the text of d.path
\* occurs again deeper in the path.
C34_OnlyPrefixReplaced ==
    \A i \in 1..Len(walk.ancestors) :
        walk.ancestors[i].copyfrom_path = PrefixReplaced(walk.ancestors[i].path, HopChange(walk.ancestors[i]))

\* A hop whose path holds the text of d.path twice: both were replaced, and
\* the walk went on with a path the repository never held.
C34_SecondOccurrenceReplaced ==
    /\ pc = "walk_raised"
    /\ exc = "ExternalCommandFailed"
    /\ walk.ancestors # <<>>
    /\ walk.cur_path \notin SourcePaths
    /\ walk.cur_path # PrefixReplaced(walk.ancestors[Len(walk.ancestors)].path, HopChange(walk.ancestors[Len(walk.ancestors)]))

\* Where the text of d.path occurs once in the path, str.replace is the
\* replacement of the prefix.
OccursOnce(path, old) == \A k \in 2..Len(path) : ~StartsWith(DropFirst(path, k - 1), old)

C34_PrefixReplacedWhereOnce ==
    \A i \in 1..Len(walk.ancestors) :
        OccursOnce(walk.ancestors[i].path, HopChange(walk.ancestors[i]).path)
            => walk.ancestors[i].copyfrom_path = PrefixReplaced(walk.ancestors[i].path, HopChange(walk.ancestors[i]))

C34_HopBelowCopy ==
    \E i \in 1..Len(walk.ancestors) :
        /\ HopChange(walk.ancestors[i]).path # walk.ancestors[i].path
        /\ OccursOnce(walk.ancestors[i].path, HopChange(walk.ancestors[i]).path)

(***************************************************************************)
(* C35: a log query without an entry                                        *)
(***************************************************************************)
\* The loop is about to query a path and revision for which svn log has no
\* entry.
AtEmptyLog ==
    /\ pc = "walk_loop"
    /\ ~walk.done
    /\ get_first_svn_log_entry(walk.cur_path, walk.cur_rev) = EmptyLog

\* C35: when the log query for cur_path@cur_rev returns no entry, the walk
\* stops and returns normally: the pass sets done and raises nothing, and
\* the chain found so far is kept for the return.
C35_EmptyLogEndsWalk ==
    [][AtEmptyLog => (walk' = [walk EXCEPT !.done = TRUE] /\ pc' = "walk_loop" /\ exc' = "")]_vars

\* The query without an entry has raised EmptySVNLog out of the walk, here
\* after a hop was found.
C35_EmptyLogRaised ==
    /\ pc = "walk_raised"
    /\ exc = "EmptySVNLog"
    /\ walk.ancestors # <<>>

(***************************************************************************)
(* C36: the URL of the initial import                                       *)
(***************************************************************************)
\* The entries of the iterator that looks for the start revision (line 865).
StartLogEntries ==
    iter_svn_log_entries_ancestors(source_base, options.rev_start, source_end_rev, source_ancestors)

\* The initial import has listed and exported the start revision.
Imported ==
    /\ pc # "replay_start"
    /\ source_end_rev # None
    /\ source_start_rev # None
    /\ StartLogEntries # <<>>
    /\ ~StartLogEntries[1].failed

\* C36: the initial import reads the content of the replayed path as it is in
\* the start revision: the path it lists and exports is the one the log
\* iterator tags on the start log entry, the path under which the base is
\* found in the start revision, for every start revision.
C36_ImportFromStartSegment ==
    Imported =>
        /\ StartPath(source_ancestors) = StartLogEntries[1].url
        /\ SrcExists(StartPath(source_ancestors), source_start_rev)

\* The base has an ancestor chain and the start revision lies after the
\* rename: the import has read the eldest path, which is gone in the start
\* revision, while the iterator tags the entry with the path of the base.
C36_ImportFromGonePath ==
    /\ Imported
    /\ source_ancestors # <<>>
    /\ StartLogEntries[1].url = source_base
    /\ StartPath(source_ancestors) # source_base
    /\ ~SrcExists(StartPath(source_ancestors), source_start_rev)
    /\ SrcExists(source_base, source_start_rev)

\* The start revision is the copy-from revision of the rename: the import has
\* read the eldest path, where the base is found in that revision, and the
\* iterator has tagged the entry with the path of the base (see C27).
C36_TagDiffersFromImport ==
    /\ Imported
    /\ source_ancestors # <<>>
    /\ StartLogEntries[1].url # StartPath(source_ancestors)
    /\ SrcExists(StartPath(source_ancestors), source_start_rev)

\* Without a chain, or with the start revision in the eldest part of the
\* chain, the import reads the path of the start log entry.
C36_ImportFromEldestSegment ==
    (Imported /\ (source_ancestors = <<>> \/ source_start_rev < source_ancestors[Len(source_ancestors)].copyfrom_rev)) =>
        /\ StartPath(source_ancestors) = StartLogEntries[1].url
        /\ SrcExists(StartPath(source_ancestors), source_start_rev)

C36_ImportedEldest ==
    /\ Imported
    /\ source_ancestors # <<>>
    /\ source_start_rev < source_ancestors[Len(source_ancestors)].copyfrom_rev
    /\ target_repos # <<>>

(***************************************************************************)
(* C37: the yielded entries and the measured durations                      *)
(***************************************************************************)
\* The iteration with every request taking the same time: lines 341-379 run
\* to the end with one duration.
RECURSIVE FixedLoop(_, _, _, _, _, _, _, _, _, _)

FixedYielded(anc, log, last_rev, duration, s, stop_rev, chunk_length, out, revs, n) ==
    IF revs # <<>> /\ LoopEntry(revs, n) >= last_rev
    THEN [yielded |-> out \o Yielded(SubSeq(revs, 1, n), s.url), raised |-> FALSE]
    ELSE FixedLoop(anc, log, last_rev, duration, s.url,
                   IF revs = <<>> THEN AfterEmptyChunk(s.rev, stop_rev) ELSE LoopEntry(revs, n) + 1,
                   s.idx, s.end, AdaptChunkLength(chunk_length, duration),
                   out \o Yielded(SubSeq(revs, 1, n), s.url))

FixedFetched(anc, log, last_rev, duration, s, stop_rev, chunk_length, out, entries) ==
    IF ~entries.ok THEN [yielded |-> out, raised |-> TRUE]
    ELSE FixedYielded(anc, log, last_rev, duration, s, stop_rev, chunk_length, out,
                      entries.revs, YieldCount(entries.revs, last_rev))

FixedChunk(anc, log, last_rev, duration, s, stop_rev, chunk_length, out) ==
    FixedFetched(anc, log, last_rev, duration, s, stop_rev, chunk_length, out,
                 run_svn_log_chunk(anc, log, s.url, s.rev, stop_rev, chunk_length))

FixedSegment(anc, log, last_rev, duration, s, chunk_length, out) ==
    FixedChunk(anc, log, last_rev, duration, s, StopRev(last_rev, s, chunk_length), chunk_length, out)

FixedLoop(anc, log, last_rev, duration, cur_url, cur_rev, cur_anc_idx, cur_anc_end_rev, chunk_length, out) ==
    IF cur_rev > last_rev THEN [yielded |-> out, raised |-> FALSE]
    ELSE FixedSegment(anc, log, last_rev, duration,
                      NextSegment(anc, cur_url, cur_rev, cur_anc_idx, cur_anc_end_rev),
                      chunk_length, out)

FixedStart(anc, log, last_rev, duration, s) ==
    FixedLoop(anc, log, last_rev, duration, s.url, s.rev, s.idx, s.end, log_min_chunk_length, <<>>)

\* What the iteration under way yields when every request takes `duration`.
YieldedAtDuration(duration) ==
    FixedStart(source_ancestors, srcLog, iter.last_rev, duration,
               PreSegment(IterUrl, source_ancestors, iter.start_rev,
                          SegmentHits(source_ancestors, iter.start_rev)))

\* C37: the entries the iterator yields depend on the history, the range and
\* the ancestor chain alone: whatever the requests took, an iteration that has
\* ended has yielded what it yields when every request is fast.
C37_YieldIndependentOfDurations ==
    pc = "iter_done" => iter.yielded = YieldedAtDuration(9).yielded

\* An iteration has ended without the entry of a copy-from revision that the
\* iteration with fast requests yields.
C37_LostWithSlowRequests ==
    /\ pc = "iter_done"
    /\ \E i \in 1..Len(source_ancestors) :
          /\ source_ancestors[i].copyfrom_rev \in srcLog
          /\ \A k \in 1..Len(iter.yielded) : iter.yielded[k].revision # source_ancestors[i].copyfrom_rev
          /\ \E k \in 1..Len(YieldedAtDuration(9).yielded) :
                YieldedAtDuration(9).yielded[k].revision = source_ancestors[i].copyfrom_rev

\* Without an ancestor chain the durations change the windows and nothing
\* else.
C37_IndependentWithoutChain ==
    (pc = "iter_done" /\ source_ancestors = <<>>) => iter.yielded = YieldedAtDuration(9).yielded

C37_SlowWithoutChain ==
    /\ pc = "iter_done"
    /\ source_ancestors = <<>>
    /\ iter.duration = 21
    /\ Len(iter.yielded) > 20

(***************************************************************************)
(* C38: the SIGINT handler on the exits of commit_from_svn_log_entry and    *)
(* keep_revnum                                                              *)
(***************************************************************************)
\* The positions inside the two functions.
CallPcs == {"commit_begin", "commit_svn", "commit_date", "commit_author", "commit_disable",
            "keep_revnum", "pad_propset", "pad_commit", "pad_disable"}

\* A step that leaves one of the two functions, by a return or by an
\* exception.
ExitsCall == pc \in CallPcs /\ pc' \notin CallPcs

\* C38: on every exit from commit_from_svn_log_entry and from keep_revnum, by
\* a return, by the re-raised KeyboardInterrupt or by the exception of a
\* failed svn command inside the critical section, the SIGINT handler is the
\* one that was installed before the call and the break handler is disabled.
C38_HandlerRestoredOnExit ==
    [][ExitsCall => (handler' = "default" /\ ~bh_enabled')]_vars

\* A failed svn commit has left the function with the break handler still
\* installed, and the except clause is entered with it.
C38_LeftInstalled ==
    /\ pc \in {"except_other", "uncaught"}
    /\ exc = "ExternalCommandFailed"
    /\ exc_at \in {"commit_svn", "commit_date", "commit_author", "pad_commit"}
    /\ handler = "bh"
    /\ bh_enabled

\* The exits that pass bh.disable(): a return, and the KeyboardInterrupt of
\* the trapped test; so do the exits before bh.enable().
C38_RestoredOnReturnAndInterrupt ==
    [][(ExitsCall /\ pc \in {"commit_begin", "commit_disable", "keep_revnum", "pad_disable"})
          => (handler' = "default" /\ ~bh_enabled')]_vars

C38_InterruptRaisedAfterSection ==
    /\ pc = "except_kbd"
    /\ exc_at \in {"commit_disable", "pad_disable"}
    /\ bh_count > 0
    /\ handler = "default"

(***************************************************************************)
(* C39: the children do_svn_add_dir removes                                 *)
(***************************************************************************)
\* The calls of do_svn_add for a directory named among the changed paths that
\* the loop over the changed paths has just come back from.
JustAddedDirs ==
    IF pc = "replay_paths" /\ path_idx > 1
    THEN {a \in Range(adds) : /\ a.source_rev = source_rev
                               /\ a.depth = 0
                               /\ a.is_dir
                               /\ a.err = ""
                               /\ a.path_offset = OffsetOf(RevChanges[path_idx - 1])}
    ELSE {}

\* The children of the directory that "svn list" of the working copy shows.
LocalChildren(a) == {q \in DOMAIN wc : q # a.path_offset /\ dirname(q) = a.path_offset /\ wc[q].base # NoFile}

\* The source directory holds a child of this name, and one of this name and kind.
RemoteHasName(a, q) == SrcExists(join_path(a.source_base, q), a.source_rev)
RemoteHasEntry(a, q) ==
    /\ RemoteHasName(a, q)
    /\ repos.tree[a.source_rev][join_path(a.source_base, q)].kind = wc[q].kind

\* C39: do_svn_add_dir removes a child of the directory only if the source
\* directory holds no child of that name at source_rev: a child in both
\* listings is never removed, also when its kind differs between them.
C39_RemovedOnlyIfNameAbsent ==
    \A a \in JustAddedDirs : \A q \in LocalChildren(a) :
        RemoteHasName(a, q) => wc[q].st # "deleted"

\* A file of the copied directory has been removed although the source
\* directory holds a child of its name, a directory.
C39_RemovedKindDiffers ==
    \E a \in JustAddedDirs : \E q \in LocalChildren(a) :
        /\ RemoteHasName(a, q)
        /\ ~RemoteHasEntry(a, q)
        /\ wc[q].kind = "file"
        /\ wc[q].st = "deleted"

\* C39 (amended): do_svn_add_dir removes a child of the directory exactly when
\* the listing of the source directory at source_rev holds no entry with the
\* child's name and kind: a child in both listings with the same kind is never
\* removed, and one whose kind differs between the listings is removed.
C39_RemovedUnlessEntryListed ==
    \A a \in JustAddedDirs : \A q \in LocalChildren(a) :
        (wc[q].st = "deleted") <=> ~RemoteHasEntry(a, q)

\* A directory was copied; one of its children is in both listings with the
\* same kind and was kept, another is in both with different kinds and was
\* removed.
C39_Witness ==
    \E a \in JustAddedDirs : \E q, k \in LocalChildren(a) :
        /\ RemoteHasEntry(a, q) /\ wc[q].st # "deleted"
        /\ RemoteHasName(a, k) /\ ~RemoteHasEntry(a, k) /\ wc[k].st = "deleted"

\* A child the source directory does not hold under any kind was removed.
C39_RemovedAbsent ==
    \E a \in JustAddedDirs : \E q \in LocalChildren(a) :
        ~RemoteHasName(a, q) /\ wc[q].st = "deleted"

(***************************************************************************)
(* C40: the rev map of a run against the rev map rebuilt from the target.  *)
(***************************************************************************)
\* The target the run started on holds no commit that tracks the configured
\* source repository.
NoEarlierReplay ==
    \A i \in 1..run_base :
        "svn2svn:source_uuid" \in DOMAIN target_log[i].revprops
            => target_log[i].revprops["svn2svn:source_uuid"] # SourceUuid

\* build_rev_map(target_url, HEAD, source_info) over the target log as it is.
RebuiltAtEnd == build_rev_map(target_log, SourceUuid, SvnInfoUrl(source_url))

\* C40: after any run into a target that holds no earlier replay of the same
\* source, build_rev_map over the resulting target log yields exactly the
\* rev map the run held in memory when it ended.
C40_RebuildRoundTrips ==
    (pc = "exit" /\ NoEarlierReplay) => RebuiltAtEnd = rev_map

\* A run on a source URL with a space has ended without an error; its rev
\* map holds its commits and the rebuilt map is empty.
C40_RebuiltEmpty ==
    /\ pc = "exit"
    /\ exit_code = 0
    /\ NoEarlierReplay
    /\ Quote(source_url) # source_url
    /\ rev_map # EmptyMap
    /\ RebuiltAtEnd = EmptyMap

\* A run on a plain source URL has ended after an interrupted commit: the
\* rebuilt map holds a commit the rev map of the run does not.
C40_RebuiltHoldsMore ==
    /\ pc = "exit"
    /\ NoEarlierReplay
    /\ Quote(source_url) = source_url
    /\ \E s \in DOMAIN RebuiltAtEnd : s \notin DOMAIN rev_map

\* What holds: on a source URL without a character that urllib.quote
\* escapes, a run that ended without an error holds the rebuilt map.
C40_RoundTripsOnPlainUrl ==
    (pc = "exit" /\ exit_code = 0 /\ NoEarlierReplay /\ Quote(source_url) = source_url)
        => RebuiltAtEnd = rev_map

\* Such a run has made commits.
C40_PlainRunCommitted ==
    /\ pc = "exit"
    /\ exit_code = 0
    /\ NoEarlierReplay
    /\ Quote(source_url) = source_url
    /\ Cardinality(DOMAIN rev_map) >= 2
    /\ RebuiltAtEnd = rev_map

====
